---- MODULE Spec2Model ----
(***************************************************************************)
(* A model of the trading core: the pre-trade RiskEngine with its          *)
(* CircuitBreaker, SpendTracker and LossTracker (src/src/risk/engine.py),  *)
(* the OrderTool that submits orders (src/src/tools/order.py), the broker  *)
(* gateways' idempotent submit_order (src/src/brokers/alpaca.py,           *)
(* src/src/brokers/kalshi.py) and the DrawdownProtector                    *)
(* (src/src/risk/drawdown_protection.py).                                  *)
(*                                                                         *)
(* Money is in whole dollars, percentages in whole percent, slippage in    *)
(* basis points, the engine clock in minutes, the protector clock in       *)
(* hours.  An Optional value is a set with at most one element.            *)
(***************************************************************************)
EXTENDS Integers, Sequences, FiniteSets, TLC

None == {}
Some(v) == {v}
IsSome(o) == o # {}
Get(o) == CHOOSE v \in o : TRUE

Max(a, b) == IF a >= b THEN a ELSE b
Abs(a) == IF a < 0 THEN 0 - a ELSE a

RECURSIVE SumSeq(_)
SumSeq(s) == IF s = <<>> THEN 0 ELSE Head(s) + SumSeq(Tail(s))

RECURSIVE Flatten(_)
Flatten(ss) == IF ss = <<>> THEN <<>> ELSE Head(ss) \o Flatten(Tail(ss))

InSeq(x, s) == \E i \in 1..Len(s) : s[i] = x

(***************************************************************************)
(* Bounds of the model.                                                    *)
(***************************************************************************)
\* the engine clock runs from 0 to MaxTime minutes in steps of TickMinutes
MaxTime == 10
TickMinutes == 5
\* capacity of the circuit breaker's outcome ring (RiskLimits.reject_window_size,
\* 20 by default, 10 in the tests)
reject_window_size == 5
\* orders the broker accepts from the order tool in one run
MaxOrders == 1
\* equity / realized P&L updates applied to the engine in one run
MaxEquityUpdates == 1
\* record_fill is followed up to this much recorded daily spend
MaxSpend == 120000
\* submit_order calls made on the gateway in one run
MaxCallers == 3
\* orders the venue creates in one run
MaxVenueOrders == 3
\* the protector clock runs from StartHour to MaxHours in steps of TickHours
\* _request: calls made, the limiter's rate (its capacity for Kalshi), the clock
MaxRequests == 2
requests_per_second == 1
MaxClock == 3
\* streams: failures in a row that the network inflicts on a loop, the highest
\* sequence number a channel carries
MaxFailures == 2
MaxSeq == 3
\* approvals: requests queued, the capacity of the pending map, the lifetime of a
\* request in minutes, the minutes that pass
MaxQueued == 2
max_pending == 1
timeout_minutes == 1
MaxApClock == 3
\* theses: fills recorded against a thesis
MaxFills == 3
\* P&L alerts: the minutes that pass and their step, the longest streak of trades,
\* the calls of update
MaxPtClock == 15
PtTickMinutes == 5
MaxStreak == 4
MaxUpdates == 2
\* the thesis index: theses created
MaxTheses == 2
MaxHours == 36
TickHours == 12
StartHour == 12

(***************************************************************************)
(* RiskLimits: the defaults of the dataclass.                              *)
(***************************************************************************)
max_order_notional == 10000
max_order_shares == 1000
max_position_notional == 50000
max_position_shares == 5000
max_total_exposure == 200000
\* 0.25, in percent
max_concentration_pct == 25
max_daily_loss == 5000
max_weekly_loss == 15000
\* 0.10, in percent
max_drawdown_pct == 10
daily_spend_limit == 100000
weekly_spend_limit == 300000
monthly_spend_limit == 1000000
approval_notional_threshold == 25000
approval_loss_threshold == 2000
\* 0.3, in percent
max_reject_rate == 30
\* 0.02, in basis points
max_slippage_pct == 200
\* allowed_symbols = None: no whitelist; one symbol is put on the blocklist
allowed_symbols == {}
blocked_symbols == {"GME"}
\* CircuitBreaker.cooldown_minutes
cooldown_minutes == 5
\* "Minimum sample" of CircuitBreaker.record_order
min_sample == 5

(***************************************************************************)
(* Inputs.                                                                 *)
(***************************************************************************)
Sides == {"buy", "sell"}
\* risk Orders (symbol, side, qty, limit_price): one that passes every check on an
\* empty book, one for the blocked symbol, one above max_order_shares
Orders ==
    {[symbol |-> "AAPL", side |-> "buy", qty |-> 1, limit_price |-> None],
     [symbol |-> "GME", side |-> "buy", qty |-> 1, limit_price |-> None],
     [symbol |-> "AAPL", side |-> "sell", qty |-> 1500, limit_price |-> None]}
\* positions: symbol -> Position(qty, market_value)
NoPositions == [s \in {} |-> [qty |-> 0, market_value |-> 0]]
LongAAPL == [s \in {"AAPL"} |-> [qty |-> 5000, market_value |-> 500000]]
\* a hedged book: long AAPL, short TSLA (a short has a negative market value)
LongShort ==
    [s \in {"AAPL", "TSLA"} |->
        IF s = "AAPL" THEN [qty |-> 1000, market_value |-> 150000]
        ELSE [qty |-> 0 - 1000, market_value |-> 0 - 100000]]
\* what a caller of check_order holds: the positions, the market price (0 when no
\* quote could be obtained) and the account equity (None when it could not be
\* obtained; a failed position fetch gives the empty map)
Snapshots ==
    {[positions |-> NoPositions, market_price |-> 100, account_equity |-> Some(1000000)],
     [positions |-> NoPositions, market_price |-> 0, account_equity |-> None],
     [positions |-> LongAAPL, market_price |-> 100, account_equity |-> Some(1000000)]}
\* the same for a caller that holds the hedged book
HedgedSnapshots ==
    {[positions |-> LongShort, market_price |-> 100, account_equity |-> Some(1000000)]}
\* place_order could not obtain an input of the risk check: no quote (it goes on
\* with market_price = 0) or no account (it goes on with account_equity = None)
Unobtained(snap) == snap.market_price = 0 \/ ~IsSome(snap.account_equity)
\* equity updates: (equity, realized_pnl)
EquityUpdates ==
    {[equity |-> 1000000, realized_pnl |-> 0],
     [equity |-> 850000, realized_pnl |-> 0 - 3000]}
\* notional of a fill recorded with the engine directly
FillNotionals == {0, 60000}
\* slippage of a recorded outcome, in basis points
Slippages == {0, 500}

VARIABLES
    \* RiskEngine
    kill_switch_active, dry_run,
    \* CircuitBreaker
    cb_state, recent_orders, opened_at,
    \* LossTracker
    daily_pnl, weekly_pnl, peak_equity, current_equity,
    \* SpendTracker
    daily_spend, weekly_spend, monthly_spend,
    \* datetime.now() as the engine sees it, in minutes
    now,
    \* OrderTool: whether it was built with a risk engine; orders passed to a broker
    tool_risk_engine, broker_orders,
    \* observations: the last CircuitBreaker call, the last check_order result,
    \* the last order-tool call, the number of equity updates
    cb_last, last_check, last_tool, equity_updates,
    \* broker gateway: which client it is, whether the venue refuses a client key
    \* it has seen, the venue's orders, the client's _submitted_orders map, the
    \* submit_order calls
    gw_client, venue_unique_keys, venue_orders, submitted_orders, calls,
    \* observations: every broker id the gateway tied to a key, and the id the
    \* first returning submission of a key gave
    associated, first_returned,
    \* DrawdownProtector: _peak_equity, _current_equity, _current_level, the period
    \* start equities, _daily_reset, the recovery state, datetime.now() in hours
    dd_peak_equity, dd_current_equity, dd_current_level,
    dd_daily_start_equity, dd_weekly_start_equity, dd_monthly_start_equity,
    dd_daily_reset, dd_in_recovery, dd_recovery_until, dd_now,
    \* observation: the DrawdownState the last update_equity returned, and the
    \* calls made so far while they follow the escalation scenario
    dd_state, dd_log,
    \* observation: the last get_liquidation_orders, its orders with the market value
    \* of the position each one closes
    dd_plan,
    \* _request of a broker client: the client, whether Kalshi is configured with an
    \* api key, the session token, the rate limiter (tokens, last_update, its lock's
    \* holder), time.monotonic() in token periods, the calls of _request
    rq_client, rq_api_key, rq_token, rl_tokens, rl_last_update, rl_lock, rq_clock, rq,
    \* observation: HTTP requests sent so far
    rq_sent,
    \* a stream object (AlpacaStream or KalshiStream): which one, _running,
    \* _reconnect_delay, its connection loops, _subscriptions, KalshiStream._seq
    st_obj, st_running, st_delay, st, st_subs, st_seq,
    \* observation: what callers asked to be subscribed to, the last replay, the
    \* last sequence number per channel, the last message handled
    st_intent, st_replay, st_chan_last, st_msg,
    \* ApprovalWorkflow: datetime.now() in minutes, the requests' status and expires_at, _pending in insertion order, _history, the wait_for_approval calls; observation: the last queue_for_approval
    ap_clock, ap_status, ap_expires, ap_pending, ap_history, ap_wait, ap_last,
    \* ThesisTracker, for one thesis id: the Thesis in _theses, its file in the storage directory, whether _save_thesis is between open and close; observation: what the last reader of the file found
    th, th_file, th_saving, th_read,
    \* PnLTracker: datetime.now() in minutes, _current_equity, _peak_equity, _current_streak, _in_drawdown, _alert_cooldowns; observation: per alert key, when it was last emitted and the shortest time between two emissions in a row; the calls of update so far
    pt_clock, pt_equity, pt_peak, pt_streak, pt_in_drawdown, pt_cooldowns, pt_emits,
    pt_updates,
    \* PnLTracker: _drawdown_low, _recovery_alerts_sent; observation: the milestones whose alert was emitted
    pt_low, pt_recovery_sent, pt_delivered,
    \* IntegratedRiskManager: _current_positions, _current_equity; observation: the last evaluate_trade, the last call of the CorrelationRiskManager
    mg_positions, mg_equity, mg_last, cm_last,
    \* the thesis tracker's maps: _theses, _by_order, and the ids given out
    ix_theses, ix_by_order, ix_next

engine_vars == <<kill_switch_active, dry_run, cb_state, recent_orders, opened_at,
                 daily_pnl, weekly_pnl, peak_equity, current_equity,
                 daily_spend, weekly_spend, monthly_spend, now,
                 tool_risk_engine, broker_orders, cb_last, last_check, last_tool,
                 equity_updates>>

gateway_vars == <<gw_client, venue_unique_keys, venue_orders, submitted_orders, calls,
                  associated, first_returned>>

dd_vars == <<dd_peak_equity, dd_current_equity, dd_current_level,
             dd_daily_start_equity, dd_weekly_start_equity, dd_monthly_start_equity,
             dd_daily_reset, dd_in_recovery, dd_recovery_until, dd_now, dd_state,
             dd_log, dd_plan>>

request_vars == <<rq_client, rq_api_key, rq_token, rl_tokens, rl_last_update, rl_lock,
                  rq_clock, rq, rq_sent>>

stream_vars == <<st_obj, st_running, st_delay, st, st_subs, st_seq,
                 st_intent, st_replay, st_chan_last, st_msg>>

approval_vars == <<ap_clock, ap_status, ap_expires, ap_pending, ap_history, ap_wait, ap_last>>

thesis_vars == <<th, th_file, th_saving, th_read>>

pnl_vars == <<pt_clock, pt_equity, pt_peak, pt_streak, pt_in_drawdown, pt_cooldowns,
              pt_emits, pt_updates, pt_low, pt_recovery_sent, pt_delivered>>

manager_vars == <<mg_positions, mg_equity, mg_last, cm_last>>

index_vars == <<ix_theses, ix_by_order, ix_next>>

\* everything outside the risk engine and the order tool
beyond_engine == <<gateway_vars, dd_vars, request_vars, stream_vars, approval_vars, thesis_vars, pnl_vars, manager_vars, index_vars>>
\* everything outside the broker gateway
beyond_gateway == <<engine_vars, dd_vars, request_vars, stream_vars, approval_vars, thesis_vars, pnl_vars, manager_vars, index_vars>>
\* everything outside the drawdown protector
beyond_protector == <<engine_vars, gateway_vars, request_vars, stream_vars, approval_vars, thesis_vars, pnl_vars, manager_vars, index_vars>>
\* everything outside _request and the rate limiter
beyond_request == <<engine_vars, gateway_vars, dd_vars, stream_vars, approval_vars, thesis_vars, pnl_vars, manager_vars, index_vars>>
\* everything outside the streams
beyond_streams == <<engine_vars, gateway_vars, dd_vars, request_vars, approval_vars, thesis_vars, pnl_vars, manager_vars, index_vars>>
\* everything outside the approval workflow
beyond_approval == <<engine_vars, gateway_vars, dd_vars, request_vars, stream_vars, thesis_vars, pnl_vars, manager_vars, index_vars>>
\* everything outside the thesis tracker
beyond_thesis == <<engine_vars, gateway_vars, dd_vars, request_vars, stream_vars, approval_vars, pnl_vars, manager_vars, index_vars>>
\* everything outside the P&L tracker
beyond_pnl == <<engine_vars, gateway_vars, dd_vars, request_vars, stream_vars, approval_vars, thesis_vars, manager_vars, index_vars>>
\* everything outside the integrated risk manager
beyond_manager == <<engine_vars, gateway_vars, dd_vars, request_vars, stream_vars, approval_vars, thesis_vars, pnl_vars, index_vars>>
beyond_index == <<engine_vars, gateway_vars, dd_vars, request_vars, stream_vars, approval_vars, thesis_vars, pnl_vars, manager_vars>>

(***************************************************************************)
(* CircuitBreaker                                                          *)
(***************************************************************************)
\* deque(maxlen=reject_window_size).append
RingAppend(ring, e) ==
    IF Len(ring) >= reject_window_size THEN Append(Tail(ring), e) ELSE Append(ring, e)

Rejects(ring) == Cardinality({i \in 1..Len(ring) : ~ring[i].success})
SlippageSum(ring) == SumSeq([i \in 1..Len(ring) |-> ring[i].slippage])

\* the rate conditions alone, on a ring of any length
ShouldTripNoMinimum(ring) ==
    \/ Rejects(ring) * 100 > max_reject_rate * Len(ring)
    \/ SlippageSum(ring) > max_slippage_pct * Len(ring)

\* record_order's "should we trip": once the ring holds the minimum sample, the
\* reject rate, then the average slippage
ShouldTrip(ring) ==
    /\ Len(ring) >= min_sample
    /\ \/ Rejects(ring) * 100 > max_reject_rate * Len(ring)
       \/ SlippageSum(ring) > max_slippage_pct * Len(ring)

\* _trip acts only on a CLOSED breaker
TripState(state, at) ==
    IF state = "CLOSED" THEN [state |-> "OPEN", opened_at |-> Some(now)]
    ELSE [state |-> state, opened_at |-> at]

\* record_order(success, slippage_pct) applied to (ring, state, opened_at)
record_order(ring, state, at, success, slippage) ==
    LET r2 == RingAppend(ring, [success |-> success, slippage |-> slippage])
        t == IF ShouldTrip(r2) THEN TripState(state, at)
             ELSE [state |-> state, opened_at |-> at]
    IN [ring |-> r2, state |-> t.state, opened_at |-> t.opened_at]

\* can_trade() on breaker state `state`: (allowed, reason, state afterwards)
can_trade_of(state, at) ==
    IF state = "CLOSED"
    THEN [ok |-> TRUE, reason |-> None, state |-> state]
    ELSE IF state = "OPEN" /\ IsSome(at) /\ now - Get(at) > cooldown_minutes
         THEN [ok |-> TRUE, reason |-> Some("Circuit breaker in test mode"),
               state |-> "HALF_OPEN"]
         ELSE [ok |-> FALSE, reason |-> Some("Circuit breaker OPEN - trading halted"),
               state |-> state]

can_trade == can_trade_of(cb_state, opened_at)

(***************************************************************************)
(* SpendTracker and LossTracker.  The run lies inside one calendar day, so *)
(* _check_reset finds no boundary passed and leaves the trackers alone.    *)
(***************************************************************************)
get_remaining ==
    [daily |-> daily_spend_limit - daily_spend,
     weekly |-> weekly_spend_limit - weekly_spend,
     monthly |-> monthly_spend_limit - monthly_spend]

\* get_drawdown_pct() > max_drawdown_pct, without the division
DrawdownExceeded ==
    /\ peak_equity > 0
    /\ (peak_equity - current_equity) * 100 > max_drawdown_pct * peak_equity

(***************************************************************************)
(* RiskEngine.check_order                                                  *)
(***************************************************************************)
\* Order.notional: (limit_price or market_price) * qty
Notional(order, market_price) ==
    (IF IsSome(order.limit_price) /\ Get(order.limit_price) # 0
     THEN Get(order.limit_price) ELSE market_price) * order.qty

PositionQty(positions, symbol) ==
    IF symbol \in DOMAIN positions THEN positions[symbol].qty ELSE 0

RECURSIVE SumMarketValue(_, _)
SumMarketValue(positions, syms) ==
    IF syms = {} THEN 0
    ELSE LET s == CHOOSE x \in syms : TRUE
         IN positions[s].market_value + SumMarketValue(positions, syms \ {s})

\* one check of the pipeline: its name when it passes, its code when it fails
Check(fails, name, code) ==
    [passed |-> IF fails THEN <<>> ELSE <<name>>,
     failed |-> IF fails THEN <<code>> ELSE <<>>]

\* the checks after the kill switch and the circuit breaker, in the order of the code
PipelineChecks(order, positions, market_price, account_equity) ==
    LET notional == Notional(order, market_price)
        current_qty == PositionQty(positions, order.symbol)
        new_qty == IF order.side = "buy" THEN current_qty + order.qty
                   ELSE current_qty - order.qty
        new_position_value == Abs(new_qty) * market_price
        total_exposure == SumMarketValue(positions, DOMAIN positions)
                          + (IF order.side = "buy" THEN notional ELSE 0)
        remaining == get_remaining
    IN  <<Check(allowed_symbols # {} /\ order.symbol \notin allowed_symbols,
                "symbol_allowlist", "SYMBOL_NOT_ALLOWED"),
          Check(order.symbol \in blocked_symbols, "symbol_blocklist", "SYMBOL_BLOCKED"),
          Check(notional > max_order_notional, "order_notional", "ORDER_NOTIONAL_EXCEEDED"),
          Check(order.qty > max_order_shares, "order_shares", "ORDER_SHARES_EXCEEDED"),
          Check(Abs(new_qty) > max_position_shares,
                "position_shares", "POSITION_SHARES_EXCEEDED"),
          Check(new_position_value > max_position_notional,
                "position_notional", "POSITION_NOTIONAL_EXCEEDED"),
          Check(total_exposure > max_total_exposure,
                "total_exposure", "TOTAL_EXPOSURE_EXCEEDED")>>
        \o (IF IsSome(account_equity) /\ Get(account_equity) > 0
            THEN <<Check(new_position_value * 100
                           > max_concentration_pct * Get(account_equity),
                         "concentration", "CONCENTRATION_EXCEEDED")>>
            ELSE <<>>)
        \o <<Check(daily_pnl < 0 - max_daily_loss, "daily_loss_limit", "DAILY_LOSS_LIMIT"),
             Check(weekly_pnl < 0 - max_weekly_loss, "weekly_loss_limit", "WEEKLY_LOSS_LIMIT"),
             Check(DrawdownExceeded, "drawdown_limit", "DRAWDOWN_LIMIT")>>
        \o (IF order.side = "buy"
            THEN <<Check(notional > remaining.daily,
                         "daily_spend_limit", "DAILY_SPEND_LIMIT"),
                   Check(notional > remaining.weekly,
                         "weekly_spend_limit", "WEEKLY_SPEND_LIMIT"),
                   Check(notional > remaining.monthly,
                         "monthly_spend_limit", "MONTHLY_SPEND_LIMIT")>>
            ELSE <<>>)

\* "Determine action"
DetermineAction(failed, notional) ==
    IF failed # <<>> THEN "REJECT"
    ELSE IF dry_run THEN "DRY_RUN"
    ELSE IF notional > approval_notional_threshold
            \/ daily_pnl < 0 - approval_loss_threshold
         THEN "REQUIRE_APPROVAL"
         ELSE "APPROVE"

\* check_order from the circuit-breaker check on.  `evaluated` lists the checks
\* that ran; cb_state is the breaker state that can_trade leaves behind.
check_order_from_breaker_at(breaker, order, positions, market_price, account_equity) ==
    LET ct == can_trade_of(breaker, opened_at)
        checks == PipelineChecks(order, positions, market_price, account_equity)
        passed == Flatten([i \in 1..Len(checks) |-> checks[i].passed])
        failed == Flatten([i \in 1..Len(checks) |-> checks[i].failed])
    IN  IF ~ct.ok
        THEN [action |-> "REJECT", checks_passed |-> <<>>,
              checks_failed |-> <<"CIRCUIT_BREAKER">>, warnings |-> <<>>,
              evaluated |-> <<"kill_switch", "circuit_breaker">>,
              cb_state |-> ct.state]
        ELSE [action |-> DetermineAction(failed, Notional(order, market_price)),
              checks_passed |-> passed,
              checks_failed |-> failed,
              warnings |-> IF IsSome(ct.reason) THEN <<Get(ct.reason)>> ELSE <<>>,
              evaluated |-> <<"kill_switch", "circuit_breaker">> \o passed \o failed,
              cb_state |-> ct.state]

check_order_from_breaker(order, positions, market_price, account_equity) ==
    check_order_from_breaker_at(cb_state, order, positions, market_price, account_equity)

\* a check_order that goes to the circuit breaker whatever the kill switch says
check_order_past_kill_switch(order, positions, market_price, account_equity) ==
    check_order_from_breaker(order, positions, market_price, account_equity)

\* check_order: the kill switch first, returning at once
check_order(order, positions, market_price, account_equity) ==
    IF kill_switch_active
    THEN [action |-> "REJECT", checks_passed |-> <<>>,
          checks_failed |-> <<"KILL_SWITCH_ACTIVE">>, warnings |-> <<>>,
          evaluated |-> <<"kill_switch">>, cb_state |-> cb_state]
    ELSE check_order_from_breaker(order, positions, market_price, account_equity)

\* the same check_order call made again in the state the call returning res has
\* left: only the breaker state can have moved
check_order_again(res, order, positions, market_price, account_equity) ==
    IF kill_switch_active
    THEN check_order(order, positions, market_price, account_equity)
    ELSE check_order_from_breaker_at(res.cb_state, order, positions, market_price,
                                     account_equity)

\* what an observer keeps of a check_order call; `again` is the decision of the
\* same call repeated at once
\* the sum of the absolute market values of the positions plus the buy notional is
\* above max_total_exposure
GrossExposureExceeded(order, positions, market_price) ==
    LET gross[syms \in SUBSET DOMAIN positions] ==
            IF syms = {} THEN 0
            ELSE LET s == CHOOSE x \in syms : TRUE
                 IN  Abs(positions[s].market_value) + gross[syms \ {s}]
    IN  gross[DOMAIN positions]
          + (IF order.side = "buy" THEN Notional(order, market_price) ELSE 0)
        > max_total_exposure

Observed(res, again, gross_exceeded) ==
    [called |-> TRUE, gross_exceeded |-> gross_exceeded, again |-> again.action, action |-> res.action, checks_passed |-> res.checks_passed,
     checks_failed |-> res.checks_failed, warnings |-> res.warnings,
     evaluated |-> res.evaluated,
     kill_switch |-> kill_switch_active, cb_before |-> cb_state,
     cb_after |-> res.cb_state, cb_due |-> can_trade.state # cb_state]

NoCheck ==
    [called |-> FALSE, gross_exceeded |-> FALSE, again |-> "NONE", action |-> "NONE", checks_passed |-> <<>>,
     checks_failed |-> <<>>, warnings |-> <<>>, evaluated |-> <<>>,
     kill_switch |-> FALSE, cb_before |-> "CLOSED", cb_after |-> "CLOSED",
     cb_due |-> FALSE]

NoTool ==
    [op |-> "none", skip_risk_check |-> FALSE, dry_run |-> FALSE,
     engine_dry_run |-> FALSE, decision |-> "NONE", submitted |-> FALSE,
     unobtained |-> FALSE]

NoCbCall == [op |-> "none", before |-> "CLOSED", success |-> TRUE, ok |-> TRUE]

(***************************************************************************)
(* Actions of the circuit breaker, called on its own.                      *)
(***************************************************************************)
Tick ==
    /\ now < MaxTime
    /\ now' = now + TickMinutes
    /\ UNCHANGED <<kill_switch_active, dry_run, cb_state, recent_orders, opened_at,
                   daily_pnl, weekly_pnl, peak_equity, current_equity,
                   daily_spend, weekly_spend, monthly_spend,
                   tool_risk_engine, beyond_engine, broker_orders, cb_last, last_check, last_tool,
                   equity_updates>>

\* CircuitBreaker.record_order(success, slippage_pct)
CB_record_order ==
    \E success \in BOOLEAN, slippage \in Slippages :
      LET r == record_order(recent_orders, cb_state, opened_at, success, slippage)
      IN /\ recent_orders' = r.ring
         /\ cb_state' = r.state
         /\ opened_at' = r.opened_at
         /\ cb_last' = [op |-> "record_order", before |-> cb_state,
                        success |-> success, ok |-> TRUE]
         /\ UNCHANGED <<kill_switch_active, dry_run,
                        daily_pnl, weekly_pnl, peak_equity, current_equity,
                        daily_spend, weekly_spend, monthly_spend, now,
                        tool_risk_engine, beyond_engine, broker_orders, last_check, last_tool,
                        equity_updates>>

\* CircuitBreaker.can_trade()
CB_can_trade ==
    LET ct == can_trade
    IN /\ cb_state' = ct.state
       /\ cb_last' = [op |-> "can_trade", before |-> cb_state,
                      success |-> TRUE, ok |-> ct.ok]
       /\ UNCHANGED <<kill_switch_active, dry_run, recent_orders, opened_at,
                      daily_pnl, weekly_pnl, peak_equity, current_equity,
                      daily_spend, weekly_spend, monthly_spend, now,
                      tool_risk_engine, beyond_engine, broker_orders, last_check, last_tool,
                      equity_updates>>

\* CircuitBreaker.reset()
CB_reset ==
    /\ cb_state' = "CLOSED"
    /\ opened_at' = None
    /\ recent_orders' = <<>>
    /\ cb_last' = [op |-> "reset", before |-> cb_state, success |-> TRUE, ok |-> TRUE]
    /\ UNCHANGED <<kill_switch_active, dry_run,
                   daily_pnl, weekly_pnl, peak_equity, current_equity,
                   daily_spend, weekly_spend, monthly_spend, now,
                   tool_risk_engine, beyond_engine, broker_orders, last_check, last_tool,
                   equity_updates>>

(***************************************************************************)
(* Actions of the risk engine.                                             *)
(***************************************************************************)
\* RiskEngine.check_order(order, positions, market_price, account_equity)
CheckOrderOn(snapshots) ==
    \E order \in Orders, snap \in snapshots :
      LET res == check_order(order, snap.positions, snap.market_price,
                             snap.account_equity)
      IN /\ cb_state' = res.cb_state
         /\ last_check' = Observed(res, check_order_again(res, order, snap.positions,
                                       snap.market_price, snap.account_equity),
                                   GrossExposureExceeded(order, snap.positions,
                                                         snap.market_price))
         /\ UNCHANGED <<kill_switch_active, dry_run, recent_orders, opened_at,
                        daily_pnl, weekly_pnl, peak_equity, current_equity,
                        daily_spend, weekly_spend, monthly_spend, now,
                        tool_risk_engine, beyond_engine, broker_orders, cb_last, last_tool,
                        equity_updates>>

\* check_order called directly, by a caller with one of the usual books and by one
\* with the hedged book
CheckOrder == CheckOrderOn(Snapshots)
CheckOrderHedged == CheckOrderOn(HedgedSnapshots)

\* RiskEngine.update_equity(equity, realized_pnl) -> LossTracker.update
UpdateEquity ==
    \E u \in EquityUpdates :
      /\ equity_updates < MaxEquityUpdates
      /\ equity_updates' = equity_updates + 1
      /\ daily_pnl' = daily_pnl + u.realized_pnl
      /\ weekly_pnl' = weekly_pnl + u.realized_pnl
      /\ current_equity' = u.equity
      /\ peak_equity' = Max(peak_equity, u.equity)
      /\ UNCHANGED <<kill_switch_active, dry_run, cb_state, recent_orders, opened_at,
                     daily_spend, weekly_spend, monthly_spend, now,
                     tool_risk_engine, beyond_engine, broker_orders, cb_last, last_check, last_tool>>

\* RiskEngine.record_fill(notional): the spend, then a success sample
RecordFill ==
    \E notional \in FillNotionals :
      LET r == record_order(recent_orders, cb_state, opened_at, TRUE, 0)
      IN /\ daily_spend + notional <= MaxSpend
         /\ daily_spend' = daily_spend + notional
         /\ weekly_spend' = weekly_spend + notional
         /\ monthly_spend' = monthly_spend + notional
         /\ recent_orders' = r.ring
         /\ cb_state' = r.state
         /\ opened_at' = r.opened_at
         /\ cb_last' = [op |-> "record_order", before |-> cb_state,
                        success |-> TRUE, ok |-> TRUE]
         /\ UNCHANGED <<kill_switch_active, dry_run,
                        daily_pnl, weekly_pnl, peak_equity, current_equity, now,
                        tool_risk_engine, beyond_engine, broker_orders, last_check, last_tool,
                        equity_updates>>

\* RiskEngine.record_reject(reason): a failure sample
RecordReject ==
    LET r == record_order(recent_orders, cb_state, opened_at, FALSE, 0)
    IN /\ recent_orders' = r.ring
       /\ cb_state' = r.state
       /\ opened_at' = r.opened_at
       /\ cb_last' = [op |-> "record_order", before |-> cb_state,
                      success |-> FALSE, ok |-> TRUE]
       /\ UNCHANGED <<kill_switch_active, dry_run,
                      daily_pnl, weekly_pnl, peak_equity, current_equity,
                      daily_spend, weekly_spend, monthly_spend, now,
                      tool_risk_engine, beyond_engine, broker_orders, last_check, last_tool,
                      equity_updates>>

ActivateKillSwitch ==
    /\ kill_switch_active' = TRUE
    /\ UNCHANGED <<dry_run, cb_state, recent_orders, opened_at,
                   daily_pnl, weekly_pnl, peak_equity, current_equity,
                   daily_spend, weekly_spend, monthly_spend, now,
                   tool_risk_engine, beyond_engine, broker_orders, cb_last, last_check, last_tool,
                   equity_updates>>

DeactivateKillSwitch ==
    /\ kill_switch_active' = FALSE
    /\ UNCHANGED <<dry_run, cb_state, recent_orders, opened_at,
                   daily_pnl, weekly_pnl, peak_equity, current_equity,
                   daily_spend, weekly_spend, monthly_spend, now,
                   tool_risk_engine, beyond_engine, broker_orders, cb_last, last_check, last_tool,
                   equity_updates>>

(***************************************************************************)
(* OrderTool.  A handler runs as one step: the pending-order entry it adds *)
(* is removed again in its finally block.                                  *)
(***************************************************************************)
\* place_order(request, skip_risk_check, dry_run).  snap is what the tool
\* obtained for the risk check (market price, positions, equity); broker_ok tells
\* whether alpaca.submit_order returned an order or raised.
PlaceOrder ==
    \E request \in Orders, skip_risk_check \in BOOLEAN, dry_run_arg \in BOOLEAN,
       snap \in Snapshots, broker_ok \in BOOLEAN :
      LET checked == tool_risk_engine /\ ~skip_risk_check
          market_price == snap.market_price
          res == check_order(request, snap.positions, market_price, snap.account_equity)
          returns_early == checked /\ (res.action \in {"REJECT", "REQUIRE_APPROVAL", "DRY_RUN"}
                                       \/ dry_run_arg)
          cb1 == IF checked THEN res.cb_state ELSE cb_state
          rec == record_order(recent_orders, cb1, opened_at, broker_ok, 0)
          notional == market_price * request.qty
      IN /\ broker_orders < MaxOrders
         /\ last_check' = IF checked
                          THEN Observed(res, check_order_again(res, request, snap.positions,
                                             market_price, snap.account_equity),
                                        GrossExposureExceeded(request, snap.positions,
                                                              market_price))
                          ELSE last_check
         /\ last_tool' = [op |-> "place_order", skip_risk_check |-> skip_risk_check,
                          dry_run |-> dry_run_arg,
                          engine_dry_run |-> tool_risk_engine /\ dry_run,
                          decision |-> IF tool_risk_engine THEN res.action ELSE "NONE",
                          submitted |-> ~returns_early,
                          unobtained |-> Unobtained(snap)]
         /\ IF returns_early
            THEN /\ cb_state' = cb1
                 /\ UNCHANGED <<recent_orders, opened_at, broker_orders,
                                daily_spend, weekly_spend, monthly_spend>>
            ELSE /\ broker_orders' = broker_orders + 1
                 /\ IF tool_risk_engine
                    THEN \* record_fill(notional) on success, record_reject on an exception
                         /\ recent_orders' = rec.ring
                         /\ cb_state' = rec.state
                         /\ opened_at' = rec.opened_at
                         /\ daily_spend' = daily_spend + (IF broker_ok THEN notional ELSE 0)
                         /\ weekly_spend' = weekly_spend + (IF broker_ok THEN notional ELSE 0)
                         /\ monthly_spend' = monthly_spend + (IF broker_ok THEN notional ELSE 0)
                    ELSE /\ cb_state' = cb1
                         /\ UNCHANGED <<recent_orders, opened_at,
                                        daily_spend, weekly_spend, monthly_spend>>
         /\ UNCHANGED <<kill_switch_active, dry_run,
                        daily_pnl, weekly_pnl, peak_equity, current_equity, now,
                        tool_risk_engine, beyond_engine, cb_last, equity_updates>>

\* Kalshi order requests: ticker, side (yes|no), action (buy|sell), count, price in cents
KalshiOrders == [ticker : {"AAPL"}, side : {"yes", "no"}, action : Sides,
                 count : {1}, price : {50}]

\* the risk Order that stands for a Kalshi request
KalshiRiskOrder(request) ==
    [symbol |-> request.ticker, side |-> request.action, qty |-> request.count,
     limit_price |-> Some(request.price)]

\* place_kalshi_order(request, skip_risk_check): the request goes to
\* kalshi.submit_order at once; neither the flag nor the risk engine is consulted
PlaceKalshiOrder ==
    \E request \in KalshiOrders, skip_risk_check \in BOOLEAN :
      LET res == check_order(KalshiRiskOrder(request), NoPositions, request.price, None)
      IN /\ broker_orders < MaxOrders
         /\ broker_orders' = broker_orders + 1
         /\ last_tool' = [op |-> "place_kalshi_order", skip_risk_check |-> skip_risk_check,
                          dry_run |-> FALSE,
                          engine_dry_run |-> tool_risk_engine /\ dry_run,
                          decision |-> IF tool_risk_engine THEN res.action ELSE "NONE",
                          submitted |-> TRUE, unobtained |-> FALSE]
         /\ UNCHANGED <<kill_switch_active, dry_run, cb_state, recent_orders, opened_at,
                        daily_pnl, weekly_pnl, peak_equity, current_equity,
                        daily_spend, weekly_spend, monthly_spend, now,
                        tool_risk_engine, beyond_engine, cb_last, last_check, equity_updates>>

(***************************************************************************)
(* Broker gateway: AlpacaClient.submit_order and KalshiClient.submit_order *)
(* with _request underneath.  Callers are asyncio tasks: the code between  *)
(* two awaits runs as one step, and a request with the handling of its     *)
(* answer is one step (what the venue does for one caller commutes with    *)
(* another caller entering submit_order).  The venue is the environment:   *)
(* it creates an order for a POST it receives, refuses it as a duplicate   *)
(* when it enforces unique client keys, or answers 429; a request or its   *)
(* answer may be lost (aiohttp.ClientError).  A 2xx answer to the POST     *)
(* carries the order.                                                      *)
(***************************************************************************)
Callers == 1..MaxCallers
Keys == {"k1"}

\* max_retries of _request
max_retries == 3

IdleCall ==
    [pc |-> "idle", key |-> "k1", attempt |-> 0, order_id |-> None,
     result |-> None, later |-> FALSE, posted |-> FALSE]

\* the venue's orders that carry a client key, most recent first
VenueIdsOf(k) ==
    LET idx == {i \in 1..Len(venue_orders) : venue_orders[i] = k}
    IN [j \in 1..Cardinality(idx) |->
          CHOOSE i \in idx : Cardinality({m \in idx : m > i}) = j - 1]

\* the gateway ties broker id `id` to key k
Tie(k, id) == [associated EXCEPT ![k] = @ \cup {id}]

\* submit_order up to its first await: the duplicate check on _submitted_orders
SubmitOrderLookup(k) ==
    IF IsSome(submitted_orders[k])
    THEN [pc |-> "get", order_id |-> submitted_orders[k]]
    ELSE [pc |-> "post", order_id |-> None]

\* submit_order(client_order_id = k) is called.  Callers are interchangeable, so
\* the calls are numbered in the order they are made.
GW_submit_order ==
    \E p \in Callers, k \in Keys :
      LET look == SubmitOrderLookup(k)
      IN /\ calls[p].pc = "idle"
         /\ \A q \in Callers : q < p => calls[q].pc # "idle"
         /\ calls' = [calls EXCEPT ![p] =
                        [pc |-> look.pc, key |-> k, attempt |-> 0,
                         order_id |-> look.order_id, result |-> None, later |-> IsSome(first_returned[k]),
                         posted |-> FALSE]]
         /\ UNCHANGED <<gw_client, venue_unique_keys, venue_orders, submitted_orders,
                        associated, first_returned, beyond_gateway>>

\* the next attempt of _request's loop, or its end: on the last attempt a
\* ClientError is raised, and after a 429 the loop ends in RuntimeError
NextAttempt(c) ==
    IF c.attempt + 1 < max_retries
    THEN [c EXCEPT !.pc = "post", !.attempt = @ + 1, !.posted = TRUE]
    ELSE [c EXCEPT !.pc = "raised", !.posted = TRUE]

\* One attempt of the POST in _request and what submit_order does with the answer.
\* The venue creates an order ("created"; with "unanswered" the answer is lost on
\* the way back), refuses a key it knows ("duplicate": 422 on Alpaca, whose message
\* may or may not read "already submitted"; an error status on Kalshi), answers
\* 429, or never sees the request ("lost").
GW_post ==
    \E p \in Callers,
       outcome \in {"created", "unanswered", "duplicate", "http429", "lost"},
       same_message \in BOOLEAN :
      LET c == calls[p]
          k == c.key
          known == \E i \in 1..Len(venue_orders) : venue_orders[i] = k
          creates == outcome \in {"created", "unanswered"}
          stored == outcome = "created"
          id == Len(venue_orders) + 1
      IN /\ c.pc = "post"
         /\ outcome = "duplicate" => venue_unique_keys /\ known
         /\ creates => ~(venue_unique_keys /\ known) /\ Len(venue_orders) < MaxVenueOrders
         /\ venue_orders' = IF creates THEN Append(venue_orders, k) ELSE venue_orders
         /\ calls' = [calls EXCEPT ![p] =
              CASE outcome = "created" ->
                     [c EXCEPT !.pc = "returned", !.result = Some(id), !.posted = TRUE]
                [] outcome \in {"unanswered", "http429", "lost"} -> NextAttempt(c)
                [] outcome = "duplicate" ->
                     IF gw_client = "alpaca"
                     THEN [c EXCEPT !.pc = IF same_message THEN "list" ELSE "raised",
                                    !.posted = TRUE]
                     ELSE NextAttempt(c)]
         /\ submitted_orders' = IF stored THEN [submitted_orders EXCEPT ![k] = Some(id)]
                                ELSE submitted_orders
         /\ associated' = IF stored THEN Tie(k, id) ELSE associated
         /\ first_returned' = IF stored /\ first_returned[k] = None
                              THEN [first_returned EXCEPT ![k] = Some(id)]
                              ELSE first_returned
         /\ UNCHANGED <<gw_client, venue_unique_keys, beyond_gateway>>

\* AlpacaClient.submit_order after "already submitted": list_orders answers and
\* the first order with the client key is cached and returned
GW_list_returns ==
    \E p \in Callers :
      LET c == calls[p]
          k == c.key
          ids == VenueIdsOf(k)
          found == ids # <<>>
      IN /\ c.pc = "list"
         /\ calls' = [calls EXCEPT ![p] =
              IF found THEN [c EXCEPT !.pc = "returned", !.result = Some(ids[1])]
              ELSE [c EXCEPT !.pc = "raised"]]
         /\ submitted_orders' = IF found THEN [submitted_orders EXCEPT ![k] = Some(ids[1])]
                                ELSE submitted_orders
         /\ associated' = IF found THEN Tie(k, ids[1]) ELSE associated
         /\ first_returned' = IF found /\ first_returned[k] = None
                              THEN [first_returned EXCEPT ![k] = Some(ids[1])]
                              ELSE first_returned
         /\ UNCHANGED <<gw_client, venue_unique_keys, venue_orders, beyond_gateway>>

\* get_order(order_id) of the duplicate path answers with that order, or fails
GW_get_returns ==
    \E p \in Callers, ok \in BOOLEAN :
      LET c == calls[p]
      IN /\ c.pc = "get"
         /\ calls' = [calls EXCEPT ![p] =
              IF ok THEN [c EXCEPT !.pc = "returned", !.result = c.order_id]
              ELSE [c EXCEPT !.pc = "raised"]]
         /\ associated' = IF ok THEN Tie(c.key, Get(c.order_id)) ELSE associated
         /\ UNCHANGED <<gw_client, venue_unique_keys, venue_orders, submitted_orders,
                        first_returned, beyond_gateway>>

InitGateway ==
    /\ gw_client \in {"alpaca", "kalshi"}
    /\ venue_unique_keys \in BOOLEAN
    /\ venue_orders = <<>>
    /\ submitted_orders = [k \in Keys |-> None]
    /\ calls = [p \in Callers |-> IdleCall]
    /\ associated = [k \in Keys |-> {}]
    /\ first_returned = [k \in Keys |-> None]

\* a gateway nobody has called
IdleGateway ==
    /\ gw_client = "alpaca"
    /\ venue_unique_keys = TRUE
    /\ venue_orders = <<>>
    /\ submitted_orders = [k \in Keys |-> None]
    /\ calls = [p \in Callers |-> IdleCall]
    /\ associated = [k \in Keys |-> {}]
    /\ first_returned = [k \in Keys |-> None]

(***************************************************************************)
(* DrawdownProtector.  DrawdownConfig holds the defaults; thresholds and   *)
(* loss percentages are in whole percent, the sizing multiplier is in      *)
(* thousandths.  The run starts at noon and lies inside one calendar week  *)
(* and month, so only the daily tracker can reset.                         *)
(***************************************************************************)
caution_threshold == 5
warning_threshold == 8
critical_threshold == 12
emergency_threshold == 15
daily_loss_limit == 25
weekly_loss_limit == 75
monthly_loss_limit == 150
daily_loss_pct == 5
weekly_loss_pct == 10
monthly_loss_pct == 20
recovery_cooldown_hours == 24
\* 0.50, in thousandths
reduced_sizing_pct == 500
HoursPerDay == 24

\* initial_equity of the constructor: its default 0, or an opening balance
InitialEquities == {0, 1000}
\* the equities update_equity is called with
DDEquities == {1100, 1000, 970, 920, 870, 830, 0 - 10}

\* DrawdownLevel values as Python compares them: strings, letter by letter
\* (a = 1 .. z = 26)
LevelValue(level) ==
    CASE level = "NORMAL" -> <<14, 15, 18, 13, 1, 12>>
      [] level = "CAUTION" -> <<3, 1, 21, 20, 9, 15, 14>>
      [] level = "WARNING" -> <<23, 1, 18, 14, 9, 14, 7>>
      [] level = "CRITICAL" -> <<3, 18, 9, 20, 9, 3, 1, 12>>
      [] level = "EMERGENCY" -> <<5, 13, 5, 18, 7, 5, 14, 3, 25>>

\* str.__lt__
RECURSIVE StrLess(_, _)
StrLess(a, b) ==
    IF b = <<>> THEN FALSE
    ELSE IF a = <<>> THEN TRUE
    ELSE IF Head(a) # Head(b) THEN Head(a) < Head(b)
    ELSE StrLess(Tail(a), Tail(b))

\* severity of a level, NORMAL lowest
LevelRank(level) ==
    CASE level = "NORMAL" -> 0
      [] level = "CAUTION" -> 1
      [] level = "WARNING" -> 2
      [] level = "CRITICAL" -> 3
      [] level = "EMERGENCY" -> 4

\* _calculate_drawdown() >= pct percent, for peak and current equity
DrawdownAtLeast(peak, current, pct) ==
    IF peak <= 0 THEN 0 >= pct
    ELSE (peak - current) * 100 >= pct * peak

\* _determine_level
determine_level(peak, current) ==
    IF DrawdownAtLeast(peak, current, emergency_threshold) THEN "EMERGENCY"
    ELSE IF DrawdownAtLeast(peak, current, critical_threshold) THEN "CRITICAL"
    ELSE IF DrawdownAtLeast(peak, current, warning_threshold) THEN "WARNING"
    ELSE IF DrawdownAtLeast(peak, current, caution_threshold) THEN "CAUTION"
    ELSE "NORMAL"

\* _check_loss_limits: limits_ok, for the period start equities given
limits_ok(peak, current, daily_start, weekly_start, monthly_start) ==
    LET daily_loss == daily_start - current
        weekly_loss == weekly_start - current
        monthly_loss == monthly_start - current
    IN  /\ ~(daily_loss >= daily_loss_limit)
        /\ ~(weekly_loss >= weekly_loss_limit)
        /\ ~(monthly_loss >= monthly_loss_limit)
        /\ peak > 0 =>
             /\ ~(daily_loss * 100 >= daily_loss_pct * peak)
             /\ ~(weekly_loss * 100 >= weekly_loss_pct * peak)
             /\ ~(monthly_loss * 100 >= monthly_loss_pct * peak)

\* "Escalate to at least WARNING": new_level.value < DrawdownLevel.WARNING.value
escalate(level) ==
    IF StrLess(LevelValue(level), LevelValue("WARNING")) THEN "WARNING" ELSE level

\* the level update_equity settles on
settle_level(pct_level, ok) == IF ok THEN pct_level ELSE escalate(pct_level)

\* "Determine trading permissions"
permissions(level) ==
    CASE level = "EMERGENCY" ->
           [trading_allowed |-> FALSE, new_positions_allowed |-> FALSE,
            sizing_multiplier |-> 0]
      [] level = "CRITICAL" ->
           [trading_allowed |-> TRUE, new_positions_allowed |-> FALSE,
            sizing_multiplier |-> 250]
      [] level = "WARNING" ->
           [trading_allowed |-> TRUE, new_positions_allowed |-> FALSE,
            sizing_multiplier |-> 500]
      [] level = "CAUTION" ->
           [trading_allowed |-> TRUE, new_positions_allowed |-> TRUE,
            sizing_multiplier |-> 500]
      [] level = "NORMAL" ->
           [trading_allowed |-> TRUE, new_positions_allowed |-> TRUE,
            sizing_multiplier |-> 1000]

DDTick ==
    /\ dd_now < MaxHours
    /\ dd_now' = dd_now + TickHours
    /\ UNCHANGED <<dd_peak_equity, dd_current_equity, dd_current_level,
                   dd_daily_start_equity, dd_weekly_start_equity,
                   dd_monthly_start_equity, dd_daily_reset, dd_in_recovery,
                   dd_recovery_until, dd_state, dd_log, dd_plan, beyond_protector>>

NoDrawdownState ==
    [called |-> FALSE, raised |-> FALSE, entered |-> FALSE, at |-> 0, level |-> "NORMAL", pct_level |-> "NORMAL", limits_ok |-> TRUE,
     peak_equity |-> 0, current_equity |-> 0, trading_allowed |-> TRUE,
     new_positions_allowed |-> TRUE, sizing_multiplier |-> 1000,
     in_recovery |-> FALSE, recovery_until |-> None]

\* what the registered on_level_change does when it is awaited
LevelCallbacks == {"none", "returns", "raises"}
\* the escalation scenario
Scenario == [initial_equity |-> 1000, equities |-> <<970, 920, 870, 830>>]

NoScenario == [on |-> FALSE, calls |-> <<>>]

\* the scenario's log after a call
Logged(log, equity, raised, level, sizing_multiplier) ==
    IF /\ log.on
       /\ ~raised
       /\ Len(log.calls) < Len(Scenario.equities)
       /\ equity = Scenario.equities[Len(log.calls) + 1]
    THEN [log EXCEPT !.calls = Append(@, [level |-> level,
                                          sizing_multiplier |-> sizing_multiplier])]
    ELSE NoScenario

\* update_equity(equity)
DD_update_equity ==
    \E equity \in DDEquities, on_level_change \in LevelCallbacks :
      LET \* _check_period_resets: the daily tracker restarts from the equity held
          day_passed == dd_now >= dd_daily_reset + HoursPerDay
          daily_start == IF day_passed THEN dd_current_equity ELSE dd_daily_start_equity
          \* the new high water mark ends a recovery
          new_peak == equity > dd_peak_equity
          peak == IF new_peak THEN equity ELSE dd_peak_equity
          rec1 == IF new_peak THEN FALSE ELSE dd_in_recovery
          until1 == IF new_peak /\ dd_in_recovery THEN None ELSE dd_recovery_until
          pct_level == determine_level(peak, equity)
          ok == limits_ok(peak, equity, daily_start, dd_weekly_start_equity,
                          dd_monthly_start_equity)
          new_level == settle_level(pct_level, ok)
          \* a change into CRITICAL or EMERGENCY arms the recovery
          changed == new_level # dd_current_level
          \* "await self._on_level_change(old_level, new_level)" raises: the call
          \* ends there
          raised == changed /\ on_level_change = "raises"
          entered == changed /\ new_level \in {"CRITICAL", "EMERGENCY"}
          arms == entered /\ ~raised
          rec2 == IF arms THEN TRUE ELSE rec1
          until2 == IF arms THEN Some(dd_now + recovery_cooldown_hours) ELSE until1
          perm == permissions(new_level)
          restricting == rec2 /\ IsSome(until2)
          active == restricting /\ dd_now < Get(until2)
          rec3 == IF raised THEN rec1 ELSE IF restricting /\ ~active THEN FALSE ELSE rec2
          until3 == IF raised THEN until1
                    ELSE IF restricting /\ ~active THEN None ELSE until2
          multiplier == IF active THEN (perm.sizing_multiplier * reduced_sizing_pct) \div 1000
                        ELSE perm.sizing_multiplier
      IN /\ dd_daily_reset' = IF day_passed THEN (dd_now \div HoursPerDay) * HoursPerDay
                              ELSE dd_daily_reset
         /\ dd_daily_start_equity' = daily_start
         /\ dd_current_equity' = equity
         /\ dd_peak_equity' = peak
         /\ dd_current_level' = new_level
         /\ dd_in_recovery' = rec3
         /\ dd_recovery_until' = until3
         /\ dd_state' =
              IF raised
              THEN [NoDrawdownState EXCEPT !.raised = TRUE, !.entered = entered,
                                           !.at = dd_now]
              ELSE [called |-> TRUE, raised |-> FALSE, entered |-> entered, at |-> dd_now,
                    level |-> new_level, pct_level |-> pct_level,
                    limits_ok |-> ok, peak_equity |-> peak, current_equity |-> equity,
                    trading_allowed |-> perm.trading_allowed,
                    new_positions_allowed |-> perm.new_positions_allowed /\ ~active,
                    sizing_multiplier |-> multiplier,
                    in_recovery |-> rec3, recovery_until |-> until3]
         /\ dd_log' = Logged(dd_log, equity, raised, new_level, multiplier)
         /\ UNCHANGED <<dd_weekly_start_equity, dd_monthly_start_equity, dd_now,
                        dd_plan, beyond_protector>>

\* DrawdownConfig: liquidate_losers_first, preserve_winners
liquidation_config == [liquidate_losers_first |-> TRUE, preserve_winners |-> TRUE]

\* the positions get_liquidation_orders is called with, in the order of the dict:
\* a loser and a winner, as in the test; two losers with the same unrealized P&L;
\* a winner before two losers
Position(symbol, qty, side, market_value, unrealized_pnl) ==
    [symbol |-> symbol, qty |-> qty, side |-> side, market_value |-> market_value,
     unrealized_pnl |-> unrealized_pnl]
LiquidationBooks ==
    {<<Position("AAPL", 10, "long", 1500, 0 - 100), Position("MSFT", 5, "long", 750, 50)>>,
     <<Position("F", 2, "long", 100, 0 - 10), Position("GM", 10, "long", 500, 0 - 10)>>,
     <<Position("MSFT", 5, "long", 750, 50), Position("GM", 10, "short", 0 - 500, 0 - 10),
       Position("AAPL", 1, "long", 150, 0 - 100)>>}

\* sorted(items, key=...) and list.sort(key=...): ascending in the key, items with
\* equal keys in their former order; reverse=True also keeps that order
RECURSIVE Sorted(_, _, _)
Sorted(items, key, reverse) ==
    IF items = <<>> THEN <<>>
    ELSE LET rest == Sorted(SubSeq(items, 1, Len(items) - 1), key, reverse)
             x == items[Len(items)]
             Before(y) == IF reverse THEN y[key] >= x[key] ELSE y[key] <= x[key]
             n == Cardinality({i \in 1..Len(rest) : Before(rest[i])})
             \* rest is sorted: the items that stay before x are its first n
         IN  SubSeq(rest, 1, n) \o <<x>> \o SubSeq(rest, n + 1, Len(rest))

\* the loop of get_liquidation_orders over the sorted positions
RECURSIVE LiquidationOrders(_, _, _)
LiquidationOrders(sorted_positions, level, target_reduction_pct) ==
    IF sorted_positions = <<>> THEN <<>>
    ELSE LET pos == Head(sorted_positions)
             rest == LiquidationOrders(Tail(sorted_positions), level, target_reduction_pct)
             half == (pos.qty * target_reduction_pct) \div 100
             skipped == \/ pos.qty = 0
                        \/ /\ liquidation_config.preserve_winners
                           /\ pos.unrealized_pnl > 0
                           /\ level # "EMERGENCY"
         IN  IF skipped THEN rest
             ELSE <<[symbol |-> pos.symbol,
                     side |-> IF pos.side = "long" THEN "sell" ELSE "buy",
                     qty |-> IF half = 0 THEN pos.qty ELSE half,
                     priority |-> IF pos.unrealized_pnl < 0 THEN 0 ELSE 100,
                     unrealized_pnl |-> pos.unrealized_pnl,
                     market_value |-> pos.market_value]>> \o rest

\* get_liquidation_orders(positions), target_reduction_pct in percent
get_liquidation_orders(positions, level) ==
    IF level \notin {"EMERGENCY", "CRITICAL", "WARNING"} THEN <<>>
    ELSE Sorted(LiquidationOrders(
                    Sorted(positions, "unrealized_pnl",
                           ~liquidation_config.liquidate_losers_first),
                    level, IF level = "EMERGENCY" THEN 100 ELSE 50),
                "priority", FALSE)

NoPlan == [called |-> FALSE, level |-> "NORMAL", orders |-> <<>>]

DD_get_liquidation_orders ==
    \E positions \in LiquidationBooks :
      /\ dd_plan' = [called |-> TRUE, level |-> dd_current_level,
                     orders |-> get_liquidation_orders(positions, dd_current_level)]
      /\ UNCHANGED <<dd_peak_equity, dd_current_equity, dd_current_level,
                     dd_daily_start_equity, dd_weekly_start_equity,
                     dd_monthly_start_equity, dd_daily_reset, dd_in_recovery,
                     dd_recovery_until, dd_now, dd_state, dd_log, beyond_protector>>

InitProtector(initial_equity) ==
    /\ dd_peak_equity = initial_equity
    /\ dd_current_equity = initial_equity
    /\ dd_current_level = "NORMAL"
    /\ dd_daily_start_equity = initial_equity
    /\ dd_weekly_start_equity = initial_equity
    /\ dd_monthly_start_equity = initial_equity
    /\ dd_daily_reset = 0
    /\ dd_in_recovery = FALSE
    /\ dd_recovery_until = None
    /\ dd_now = StartHour
    /\ dd_state = NoDrawdownState
    /\ dd_log = [on |-> initial_equity = Scenario.initial_equity, calls |-> <<>>]
    /\ dd_plan = NoPlan

\* a protector nobody has called
IdleProtector == InitProtector(0)

(***************************************************************************)
(* AlpacaClient._request and KalshiClient._request with their rate         *)
(* limiter.  Time is counted in token periods (1 / rate): the bucket       *)
(* gains one token per period.  A call runs from one await to the next in  *)
(* one step; the server's answer to an attempt is the environment's choice.*)
(***************************************************************************)
Requests == 1..MaxRequests
\* RateLimiter(requests_per_minute).max_tokens; KalshiRateLimiter(requests_per_second).rate
max_tokens ==
    IF rq_client = "kalshi" THEN requests_per_second ELSE 60 * requests_per_second
\* one second, in token periods
SecondTicks == requests_per_second
\* the Retry-After header of a 429, in seconds
RetryAfters == {0, 1}

RECURSIVE Pow2(_)
Pow2(n) == IF n = 0 THEN 1 ELSE 2 * Pow2(n - 1)

IdleRequest ==
    [pc |-> "idle", attempt |-> 0, errors |-> 0, n429 |-> 0, n401 |-> 0,
     reauths |-> 0, wake |-> 0, kind |-> "none"]

\* acquire(): the bucket after the refill for the time elapsed
Refill ==
    LET t == rl_tokens + (rq_clock - rl_last_update)
    IN  IF t > max_tokens THEN max_tokens ELSE t

\* "if not self._token: await self.authenticate()": with an api key authenticate
\* sets the token at once, otherwise it posts to /login
NeedsLogin == rq_client = "kalshi" /\ ~rq_token /\ ~rq_api_key
TokenAfterStart == rq_token \/ (rq_client = "kalshi" /\ rq_api_key)

\* the answers a server gives to an attempt, as _request tells them apart:
\* raise_for_status turns every other status into an aiohttp.ClientError
Answers ==
    IF rq_client = "kalshi" THEN {"ok", "http429", "http401", "error"}
    ELSE {"ok", "http429", "http422", "error"}

\* for attempt in range(max_retries): `continue` goes on to the next attempt, and
\* the loop that runs out falls to RuntimeError("Max retries exceeded")
Continue(c) ==
    IF c.attempt + 1 >= max_retries
    THEN [c EXCEPT !.attempt = @ + 1, !.pc = "raised", !.kind = "max_retries"]
    ELSE [c EXCEPT !.attempt = @ + 1, !.pc = "send"]

\* except aiohttp.ClientError: raise on the last attempt, else sleep 2 ** attempt
OnClientError(c) ==
    IF c.attempt = max_retries - 1
    THEN [c EXCEPT !.errors = @ + 1, !.attempt = @ + 1, !.pc = "raised",
                   !.kind = "client_error"]
    ELSE [c EXCEPT !.errors = @ + 1, !.attempt = @ + 1, !.pc = "backoff",
                   !.wake = rq_clock + Pow2(c.attempt) * SecondTicks]

\* _request is called: rate_limiter.acquire() up to its sleep or its end.  Calls
\* are numbered in the order they are made; a call made while the limiter's lock
\* is held waits for the lock.
RQ_call ==
    \E r \in Requests :
      /\ rq[r].pc = "idle"
      /\ \A q \in Requests : q < r => rq[q].pc # "idle"
      /\ rl_lock = 0
      /\ rl_last_update' = rq_clock
      /\ IF Refill < 1
         THEN /\ rl_tokens' = Refill
              /\ rl_lock' = r
              /\ rq' = [rq EXCEPT ![r].pc = "limiter_sleep",
                                  ![r].wake = rq_clock + (1 - Refill)]
              /\ UNCHANGED rq_token
         ELSE /\ rl_tokens' = Refill - 1
              /\ rl_lock' = 0
              /\ rq' = [rq EXCEPT ![r].pc = IF NeedsLogin THEN "login" ELSE "send"]
              /\ rq_token' = TokenAfterStart
      /\ UNCHANGED <<rq_client, rq_api_key, rq_clock, rq_sent, beyond_request>>

\* acquire() wakes from its sleep: tokens = 1, tokens -= 1, the lock is released
RQ_limiter_wake ==
    \E r \in Requests :
      /\ rq[r].pc = "limiter_sleep"
      /\ rq_clock >= rq[r].wake
      /\ rl_tokens' = 0
      /\ rl_lock' = 0
      /\ rq' = [rq EXCEPT ![r].pc = IF NeedsLogin THEN "login" ELSE "send"]
      /\ rq_token' = TokenAfterStart
      /\ UNCHANGED <<rq_client, rq_api_key, rl_last_update, rq_clock, rq_sent,
                     beyond_request>>

\* KalshiClient.authenticate() before the retry loop: POST /login
RQ_login ==
    \E r \in Requests, ok \in BOOLEAN :
      /\ rq[r].pc = "login"
      /\ rq_sent' = rq_sent + 1
      /\ rq_token' = ok
      /\ rq' = [rq EXCEPT ![r] = IF ok THEN [@ EXCEPT !.pc = "send"]
                                 ELSE [@ EXCEPT !.pc = "raised", !.kind = "client_error"]]
      /\ UNCHANGED <<rq_client, rq_api_key, rl_tokens, rl_last_update, rl_lock,
                     rq_clock, beyond_request>>

\* one attempt of the loop: session.request and the handling of its answer
RQ_send ==
    \E r \in Requests, answer \in Answers, retry_after \in RetryAfters :
      LET c == rq[r]
      IN /\ c.pc = "send"
         /\ answer # "http429" => retry_after = 0
         /\ rq_sent' = rq_sent + 1
         /\ CASE answer = "ok" ->
                   /\ rq' = [rq EXCEPT ![r].pc = "returned"]
                   /\ UNCHANGED rq_token
              [] answer = "http429" ->
                   \* sleep(Retry-After), then continue
                   /\ rq' = [rq EXCEPT ![r] = [c EXCEPT !.n429 = @ + 1, !.attempt = @ + 1,
                                                        !.pc = "backoff",
                                                        !.wake = rq_clock + retry_after * SecondTicks]]
                   /\ UNCHANGED rq_token
              [] answer = "http401" ->
                   \* self._token = None; await self.authenticate(); continue
                   IF rq_api_key
                   THEN /\ rq' = [rq EXCEPT ![r] = Continue([c EXCEPT !.n401 = @ + 1,
                                                                      !.reauths = @ + 1])]
                        /\ rq_token' = TRUE
                   ELSE /\ rq' = [rq EXCEPT ![r] = [c EXCEPT !.n401 = @ + 1,
                                                            !.reauths = @ + 1,
                                                            !.pc = "relogin"]]
                        /\ rq_token' = FALSE
              [] answer = "http422" ->
                   /\ rq' = [rq EXCEPT ![r] = [c EXCEPT !.pc = "raised",
                                                        !.kind = "order_error"]]
                   /\ UNCHANGED rq_token
              [] answer = "error" ->
                   /\ rq' = [rq EXCEPT ![r] = OnClientError(c)]
                   /\ UNCHANGED rq_token
         /\ UNCHANGED <<rq_client, rq_api_key, rl_tokens, rl_last_update, rl_lock,
                        rq_clock, beyond_request>>

\* authenticate() after a 401, inside the loop's try: POST /login; its failure is
\* an aiohttp.ClientError like any other
RQ_relogin ==
    \E r \in Requests, ok \in BOOLEAN :
      /\ rq[r].pc = "relogin"
      /\ rq_sent' = rq_sent + 1
      /\ rq_token' = ok
      /\ rq' = [rq EXCEPT ![r] = IF ok THEN Continue(@) ELSE OnClientError(@)]
      /\ UNCHANGED <<rq_client, rq_api_key, rl_tokens, rl_last_update, rl_lock,
                     rq_clock, beyond_request>>

\* a sleep of the loop is over: after a 429 the loop may have run out
RQ_resume ==
    \E r \in Requests :
      /\ rq[r].pc = "backoff"
      /\ rq_clock >= rq[r].wake
      /\ rq' = [rq EXCEPT ![r] = IF @.attempt >= max_retries
                                 THEN [@ EXCEPT !.pc = "raised", !.kind = "max_retries"]
                                 ELSE [@ EXCEPT !.pc = "send"]]
      /\ UNCHANGED <<rq_client, rq_api_key, rq_token, rl_tokens, rl_last_update, rl_lock,
                     rq_clock, rq_sent, beyond_request>>

\* time.monotonic() advances by one token period
RQ_tick ==
    /\ rq_clock < MaxClock
    /\ rq_clock' = rq_clock + 1
    /\ UNCHANGED <<rq_client, rq_api_key, rq_token, rl_tokens, rl_last_update, rl_lock,
                   rq, rq_sent, beyond_request>>

\* a client just constructed: a full bucket, no token yet
InitClient(client, api_key) ==
    /\ rq_client = client
    /\ rq_api_key = api_key
    /\ rq_token = (client = "alpaca")
    /\ rl_tokens = (IF client = "kalshi" THEN requests_per_second
                    ELSE 60 * requests_per_second)
    /\ rl_last_update = 0
    /\ rl_lock = 0
    /\ rq_clock = 0
    /\ rq = [r \in Requests |-> IdleRequest]
    /\ rq_sent = 0

\* a client nobody has called
IdleClient == InitClient("alpaca", TRUE)

(***************************************************************************)
(* AlpacaStream and KalshiStream.  A stream object runs its connection     *)
(* loops as tasks: AlpacaStream the data and the trading loop, which share *)
(* _running and _reconnect_delay, KalshiStream one loop.  A loop runs from *)
(* one await to the next in one step.  ws is the socket its attribute      *)
(* (_data_ws, _trading_ws, _ws) refers to.  What the network does (a       *)
(* connection refused, an authentication refused, a connection dropped, a  *)
(* message) is the environment's choice.                                    *)
(***************************************************************************)
Loops == {"data", "trading", "kalshi"}
LoopsOf(obj) == IF obj = "alpaca" THEN {"data", "trading"} ELSE {"kalshi"}
\* the loops that set and double _reconnect_delay; the trading loop only sleeps it
Backoffs == {"data", "kalshi"}
max_reconnect_delay == 60
Symbols == {"AAPL", "MSFT"}
Channels == {"orderbook_delta", "trade"}

IdleLoop ==
    [pc |-> "idle", ws |-> "none", was_up |-> FALSE, since_auth |-> 0,
     slept |-> 0, slept_idx |-> 0]

NoReplay == [done |-> FALSE, sent |-> {}, intent |-> {}, ever |-> {}, reconnect |-> FALSE]
NoMessage == [handled |-> FALSE, gap_logged |-> FALSE, gap |-> FALSE]

\* subscribe: self._subscriptions[...].update(items)
SubscribeUpdate(subs, items) == subs \cup items
\* an unsubscribe that leaves the local set alone
UnsubscribeKeeps(subs, items) == subs
\* unsubscribe: self._subscriptions[...] -= set(items)
UnsubscribeUpdate(subs, items) == subs \ items

\* "while self._running:" and the connect that follows it
LoopTop == IF st_running THEN "connecting" ELSE "done"

\* the end of an iteration: "if self._running: await asyncio.sleep(delay)"
EndOfIteration(c) ==
    IF st_running
    THEN [c EXCEPT !.pc = "sleeping", !.slept = st_delay, !.slept_idx = c.since_auth,
                   !.since_auth = @ + 1]
    ELSE [c EXCEPT !.pc = "done"]

\* leaving "async with websockets.connect(...) as ws" closes the socket
SessionEnds(c) == EndOfIteration([c EXCEPT !.ws = "closed"])

\* _resubscribe: what it sends, from the local set as it is now
Replay(c) == [done |-> TRUE, sent |-> st_subs, intent |-> st_intent.now,
              ever |-> st_intent.ever, reconnect |-> c.was_up]

\* connect(): _running = True and the loops start
ST_connect ==
    /\ ~st_running
    /\ \A s \in Loops : st[s].pc = "idle"
    /\ st_running' = TRUE
    /\ st' = [s \in Loops |-> IF s \in LoopsOf(st_obj) THEN [st[s] EXCEPT !.pc = "top"]
                              ELSE st[s]]
    /\ UNCHANGED <<st_obj, st_delay, st_subs, st_seq, st_intent, st_replay,
                   st_chan_last, st_msg, beyond_streams>>

\* a loop reaches its while
ST_top(s) ==
    /\ st[s].pc = "top"
    /\ st' = [st EXCEPT ![s].pc = LoopTop]
    /\ UNCHANGED <<st_obj, st_running, st_delay, st_subs, st_seq, st_intent, st_replay,
                   st_chan_last, st_msg, beyond_streams>>

\* websockets.connect returns or raises.  On a connection the data and the Kalshi
\* loop set _reconnect_delay = 1; the Alpaca loops send the auth frame and wait
\* for the answer; the Kalshi loop, authenticated by its header, resubscribes.
ST_connected(s) ==
    \E ok \in BOOLEAN :
      /\ st[s].pc = "connecting"
      /\ ~ok => st[s].since_auth < MaxFailures
      /\ IF ok
         THEN /\ st_delay' = IF s \in Backoffs THEN 1 ELSE st_delay
              /\ IF s = "kalshi"
                 THEN /\ st' = [st EXCEPT ![s] = [@ EXCEPT !.ws = "open", !.pc = "reading",
                                                           !.since_auth = 0, !.was_up = TRUE]]
                      /\ st_replay' = Replay(st[s])
                 ELSE /\ st' = [st EXCEPT ![s] = [@ EXCEPT !.ws = "open", !.pc = "auth_wait"]]
                      /\ UNCHANGED st_replay
         ELSE /\ st' = [st EXCEPT ![s] = EndOfIteration(@)]
              /\ UNCHANGED <<st_delay, st_replay>>
      /\ UNCHANGED <<st_obj, st_running, st_subs, st_seq, st_intent, st_chan_last, st_msg,
                     beyond_streams>>

\* the answer to the auth frame arrives, or the socket was closed meanwhile.  On
\* success the data loop resubscribes and both loops read messages.
ST_auth(s) ==
    \E ok \in BOOLEAN :
      /\ st[s].pc = "auth_wait"
      /\ st[s].ws = "closed" => ~ok
      /\ (~ok /\ st[s].ws = "open") => st[s].since_auth < MaxFailures
      /\ IF ok
         THEN /\ st' = [st EXCEPT ![s] = [@ EXCEPT !.pc = "reading", !.since_auth = 0,
                                                   !.was_up = TRUE]]
              /\ st_replay' = IF s = "data" THEN Replay(st[s]) ELSE st_replay
         ELSE /\ st' = [st EXCEPT ![s] = SessionEnds(@)]
              /\ UNCHANGED st_replay
      /\ UNCHANGED <<st_obj, st_running, st_delay, st_subs, st_seq, st_intent,
                     st_chan_last, st_msg, beyond_streams>>

\* "async for message in ws" ends: the socket is closed
ST_read_end(s) ==
    /\ st[s].pc = "reading"
    /\ st[s].ws = "closed"
    /\ st' = [st EXCEPT ![s] = SessionEnds(@)]
    /\ UNCHANGED <<st_obj, st_running, st_delay, st_subs, st_seq, st_intent, st_replay,
                   st_chan_last, st_msg, beyond_streams>>

\* the sleep before a reconnect is over: the data and the Kalshi loop double the
\* delay up to the cap; then the while again
ST_wake(s) ==
    /\ st[s].pc = "sleeping"
    /\ st_delay' = IF s \in Backoffs
                   THEN (IF st_delay * 2 > max_reconnect_delay THEN max_reconnect_delay
                         ELSE st_delay * 2)
                   ELSE st_delay
    /\ st' = [st EXCEPT ![s] = [@ EXCEPT !.pc = LoopTop, !.slept = 0, !.slept_idx = 0]]
    /\ UNCHANGED <<st_obj, st_running, st_subs, st_seq, st_intent, st_replay,
                   st_chan_last, st_msg, beyond_streams>>

\* the server or the network drops an open connection
ST_dropped(s) ==
    /\ st[s].pc \in {"auth_wait", "reading"}
    /\ st[s].ws = "open"
    /\ st[s].since_auth < MaxFailures
    /\ st' = [st EXCEPT ![s].ws = "closed"]
    /\ UNCHANGED <<st_obj, st_running, st_delay, st_subs, st_seq, st_intent, st_replay,
                   st_chan_last, st_msg, beyond_streams>>

\* KalshiStream._handle_message for a message that carries "seq": the server
\* numbers the messages of a channel upwards
ST_message ==
    \E ch \in Channels, seq \in 1..MaxSeq :
      /\ st["kalshi"].pc = "reading"
      /\ st["kalshi"].ws = "open"
      /\ seq > st_chan_last[ch]
      /\ st_msg' = [handled |-> TRUE,
                    gap_logged |-> (seq # st_seq + 1 /\ st_seq > 0),
                    gap |-> (st_chan_last[ch] > 0 /\ seq # st_chan_last[ch] + 1)]
      /\ st_seq' = seq
      /\ st_chan_last' = [st_chan_last EXCEPT ![ch] = seq]
      /\ UNCHANGED <<st_obj, st_running, st_delay, st, st_subs, st_intent, st_replay,
                     beyond_streams>>

\* disconnect(): _running = False, and the sockets the attributes refer to are closed
ST_disconnect ==
    /\ st_running
    /\ st_running' = FALSE
    /\ st' = [s \in Loops |-> IF st[s].ws = "open" THEN [st[s] EXCEPT !.ws = "closed"]
                              ELSE st[s]]
    /\ UNCHANGED <<st_obj, st_delay, st_subs, st_seq, st_intent, st_replay,
                   st_chan_last, st_msg, beyond_streams>>

\* subscribe(quotes=[item]) / subscribe_orderbook([item]): the local set first,
\* then the frame to the socket, if there is one
ST_subscribe ==
    \E item \in Symbols :
      /\ st_subs' = SubscribeUpdate(st_subs, {item})
      /\ st_intent' = [now |-> st_intent.now \cup {item}, ever |-> st_intent.ever \cup {item}]
      /\ UNCHANGED <<st_obj, st_running, st_delay, st, st_seq, st_replay,
                     st_chan_last, st_msg, beyond_streams>>

\* AlpacaStream.unsubscribe(quotes=[item]); KalshiStream has no unsubscribe
ST_unsubscribe ==
    \E item \in Symbols :
      /\ st_obj = "alpaca"
      /\ st_subs' = UnsubscribeUpdate(st_subs, {item})
      /\ st_intent' = [st_intent EXCEPT !.now = @ \ {item}]
      /\ UNCHANGED <<st_obj, st_running, st_delay, st, st_seq, st_replay,
                     st_chan_last, st_msg, beyond_streams>>

\* what a loop does by itself once the network has answered
ST_progress(s) ==
    \/ ST_top(s)
    \/ ST_connected(s)
    \/ ST_auth(s)
    \/ ST_read_end(s)
    \/ ST_wake(s)

\* a stream object just constructed
InitStream(obj) ==
    /\ st_obj = obj
    /\ st_running = FALSE
    /\ st_delay = 1
    /\ st = [s \in Loops |-> IdleLoop]
    /\ st_subs = {}
    /\ st_seq = 0
    /\ st_intent = [now |-> {}, ever |-> {}]
    /\ st_replay = NoReplay
    /\ st_chan_last = [ch \in Channels |-> 0]
    /\ st_msg = NoMessage

\* a stream nobody has connected
IdleStreams == InitStream("alpaca")

(***************************************************************************)
(* ApprovalWorkflow.  A request is known by the number it was queued as.   *)
(* _pending is a dict: its order is the order of insertion.  The methods   *)
(* other than wait_for_approval do not suspend (the _expire they await has *)
(* no await in it), so each is one step.  wait_for_approval suspends in    *)
(* asyncio.wait_for: the timer firing and the waiter running again are two *)
(* steps of the event loop, and other callers run between them.            *)
(***************************************************************************)
RequestIds == 1..MaxQueued
\* the wait_for_approval calls in flight
Waiters == {"w1"}
\* the timeout a caller passes to wait_for_approval: None, or a minute
WaitTimeouts == {None, Some(1)}

IdleWait == [pc |-> "idle", rid |-> 0, deadline |-> 0, outcome |-> "none"]
NoQueue == [queued |-> 0, was_full |-> FALSE, oldest |-> 0]

Remove(seq, x) == SelectSeq(seq, LAMBDA y : y # x)

\* queue_for_approval's test with no room ever made
NoEviction(pending) == {}
\* queue_for_approval: "if len(self._pending) >= self.max_pending", the oldest id
Eviction(pending) == IF Len(pending) >= max_pending THEN {Head(pending)} ELSE {}

\* a status assignment made without looking whether the request is still pending
AssignedStatus(status, rid, to) == [status EXCEPT ![rid] = to]

\* a status assignment followed by _resolve, as approve, reject, cancel and _expire
\* make it: nothing when the request is not pending
ResolvedStatus(status, rid, to) ==
    IF status[rid] = "pending" THEN [status EXCEPT ![rid] = to] ELSE status
ResolvedPending(pending, rid) == Remove(pending, rid)
ResolvedHistory(status, history, rid) ==
    IF status[rid] = "pending" THEN Append(history, rid) ELSE history

\* approve / reject / cancel of a pending request (KeyError otherwise)
Decide(rid, to) ==
    /\ ap_status[rid] = "pending"
    /\ ap_status' = ResolvedStatus(ap_status, rid, to)
    /\ ap_pending' = ResolvedPending(ap_pending, rid)
    /\ ap_history' = ResolvedHistory(ap_status, ap_history, rid)
    /\ UNCHANGED <<ap_clock, ap_expires, ap_wait, ap_last, beyond_approval>>

AP_approve == \E rid \in RequestIds : Decide(rid, "approved")
AP_reject == \E rid \in RequestIds : Decide(rid, "rejected")
AP_cancel == \E rid \in RequestIds : Decide(rid, "cancelled")

\* queue_for_approval
AP_queue ==
    LET rid == Len(ap_history) + Len(ap_pending) + 1
        out == Eviction(ap_pending)
        kept == IF out = {} THEN ap_pending ELSE ResolvedPending(ap_pending, Get(out))
    IN  /\ rid \in RequestIds
        /\ ap_clock + timeout_minutes < MaxApClock
        /\ ap_status' = [(IF out = {} THEN ap_status
                          ELSE ResolvedStatus(ap_status, Get(out), "expired"))
                         EXCEPT ![rid] = "pending"]
        /\ ap_history' = IF out = {} THEN ap_history
                         ELSE ResolvedHistory(ap_status, ap_history, Get(out))
        /\ ap_pending' = Append(kept, rid)
        /\ ap_expires' = [ap_expires EXCEPT ![rid] = ap_clock + timeout_minutes]
        /\ ap_last' = [queued |-> rid, was_full |-> out # {},
                       oldest |-> IF out = {} THEN 0 ELSE Get(out)]
        /\ UNCHANGED <<ap_clock, ap_wait, beyond_approval>>

\* wait_for_approval up to its await: a request that is not pending is returned from
\* the history (or KeyError); otherwise the caller waits for the event
AP_wait ==
    \E w \in Waiters, rid \in RequestIds, timeout \in WaitTimeouts :
      /\ ap_wait[w].pc = "idle"
      /\ ap_status[rid] # "none"
      /\ IsSome(timeout) => ap_clock + Get(timeout) <= MaxApClock
      /\ ap_wait' = [ap_wait EXCEPT ![w] =
            IF ap_status[rid] # "pending"
            THEN [pc |-> "idle", rid |-> rid, deadline |-> 0, outcome |-> "returned"]
            ELSE [pc |-> "waiting", rid |-> rid,
                  deadline |-> IF IsSome(timeout) THEN ap_clock + Get(timeout)
                               ELSE ap_expires[rid],
                  outcome |-> "none"]]
      /\ UNCHANGED <<ap_clock, ap_status, ap_expires, ap_pending, ap_history, ap_last,
                     beyond_approval>>

\* the event was set: wait_for returns and the request is returned
AP_wait_returns(w) ==
    /\ ap_wait[w].pc = "waiting"
    /\ ap_status[ap_wait[w].rid] # "pending"
    /\ ap_wait' = [ap_wait EXCEPT ![w] = [@ EXCEPT !.pc = "idle", !.outcome = "returned"]]
    /\ UNCHANGED <<ap_clock, ap_status, ap_expires, ap_pending, ap_history, ap_last,
                   beyond_approval>>

\* the timer of wait_for fires before the event was set: the wait is cancelled
AP_timer(w) ==
    /\ ap_wait[w].pc = "waiting"
    /\ ap_status[ap_wait[w].rid] = "pending"
    /\ ap_clock >= ap_wait[w].deadline
    /\ ap_wait' = [ap_wait EXCEPT ![w].pc = "timed_out"]
    /\ UNCHANGED <<ap_clock, ap_status, ap_expires, ap_pending, ap_history, ap_last,
                   beyond_approval>>

\* the waiter runs again: "except asyncio.TimeoutError: await self._expire(request_id);
\* raise TimeoutError"
AP_timeout(w) ==
    LET rid == ap_wait[w].rid
    IN  /\ ap_wait[w].pc = "timed_out"
        /\ ap_status' = ResolvedStatus(ap_status, rid, "expired")
        /\ ap_pending' = ResolvedPending(ap_pending, rid)
        /\ ap_history' = ResolvedHistory(ap_status, ap_history, rid)
        /\ ap_wait' = [ap_wait EXCEPT ![w] = [@ EXCEPT !.pc = "idle", !.outcome = "timeout"]]
        /\ UNCHANGED <<ap_clock, ap_expires, ap_last, beyond_approval>>

\* expire_stale, when somebody calls it
AP_expire_stale ==
    LET stale == {rid \in RequestIds : ap_status[rid] = "pending" /\ ap_expires[rid] < ap_clock}
    IN  /\ ap_status' = [rid \in RequestIds |-> IF rid \in stale THEN "expired" ELSE ap_status[rid]]
        /\ ap_pending' = SelectSeq(ap_pending, LAMBDA y : y \notin stale)
        /\ ap_history' = ap_history \o SelectSeq(ap_pending, LAMBDA y : y \in stale)
        /\ UNCHANGED <<ap_clock, ap_expires, ap_wait, ap_last, beyond_approval>>

\* a minute passes
AP_tick ==
    /\ ap_clock < MaxApClock
    /\ ap_clock' = ap_clock + 1
    /\ UNCHANGED <<ap_status, ap_expires, ap_pending, ap_history, ap_wait, ap_last,
                   beyond_approval>>

\* what the event loop does by itself for a suspended wait_for_approval
AP_loop(w) ==
    \/ AP_wait_returns(w)
    \/ AP_timer(w)
    \/ AP_timeout(w)

\* ApprovalWorkflow.__init__
InitApproval ==
    /\ ap_clock = 0
    /\ ap_status = [rid \in RequestIds |-> "none"]
    /\ ap_expires = [rid \in RequestIds |-> 0]
    /\ ap_pending = <<>>
    /\ ap_history = <<>>
    /\ ap_wait = [w \in Waiters |-> IdleWait]
    /\ ap_last = NoQueue

IdleApproval == InitApproval

(***************************************************************************)
(* Thesis and ThesisTracker, for one thesis id.  Every operation of the    *)
(* tracker changes the Thesis in memory and then saves it: _save_thesis    *)
(* opens the file for writing, which truncates it, and writes the document *)
(* until the file is closed.  The tracker is synchronous; what can happen  *)
(* between the open and the close is another process reading the storage  *)
(* directory, or this process dying.                                        *)
(***************************************************************************)
FillCounts == {1, 2}
FillPrices == {1, 2, 3}
\* exit prices, in cents: one that pays the fees of a fill at 2 exactly
ExitPrices == {3, 16}
Directions == {"yes", "no"}
Terminal == {"REALIZED", "INVALIDATED", "EXPIRED"}

NoThesis ==
    [status |-> "none", direction |-> "yes", filled_count |-> 0, avg_fill_price |-> None,
     exit_price |-> None, realized_pnl |-> None,
     fills |-> 0, sum_count |-> 0, sum_notional |-> 0]
NoRead == [seen |-> FALSE, file |-> "absent"]

\* Thesis.record_fill
record_fill(t, count, price) ==
    LET total_count == t.filled_count + count
    IN  [t EXCEPT
           !.status = IF t.status = "DRAFT" THEN "ACTIVE" ELSE t.status,
           \* "if self.avg_fill_price:" is false for None and for 0
           !.avg_fill_price =
               IF IsSome(t.avg_fill_price) /\ Get(t.avg_fill_price) # 0
               THEN Some((Get(t.avg_fill_price) * t.filled_count + price * count)
                           \div total_count)
               ELSE Some(price),
           !.filled_count = total_count,
           !.fills = @ + 1,
           !.sum_count = @ + count,
           !.sum_notional = @ + count * price]

\* Thesis.invalidate
invalidate(t) == [t EXCEPT !.status = "INVALIDATED"]

\* Thesis.realize; realized_pnl is kept in cents (the code divides by 100, exactly,
\* in Decimal)
realize(t, exit_price) ==
    LET avg == Get(t.avg_fill_price)
        pnl_cents == IF t.direction = "yes" THEN (exit_price - avg) * t.filled_count
                     ELSE (avg - exit_price) * t.filled_count
        fees == t.filled_count * 14
        \* "if self.avg_fill_price and self.filled_count:"
        priced == IsSome(t.avg_fill_price) /\ avg # 0 /\ t.filled_count # 0
    IN  [t EXCEPT !.status = "REALIZED", !.exit_price = Some(exit_price),
                  !.realized_pnl = IF priced THEN Some(pnl_cents - fees) ELSE @]

\* ThesisStatus: the value of a member, and the member of a value
StatusValue ==
    [DRAFT |-> "draft", ACTIVE |-> "active", INVALIDATED |-> "invalidated",
     REALIZED |-> "realized", EXPIRED |-> "expired"]
ThesisStatus(value) == CHOOSE member \in DOMAIN StatusValue : StatusValue[member] = value

\* Thesis.to_dict, for the fields kept here; None is JSON null
to_dict(t) ==
    [status |-> StatusValue[t.status],
     direction |-> t.direction,
     filled_count |-> t.filled_count,
     avg_fill_price |-> t.avg_fill_price,
     exit_price |-> t.exit_price,
     \* "str(self.realized_pnl) if self.realized_pnl else None": Decimal("0") is false
     realized_pnl |-> IF IsSome(t.realized_pnl) /\ Get(t.realized_pnl) # 0
                      THEN t.realized_pnl ELSE None]

\* Thesis.from_dict
from_dict(data) ==
    [status |-> ThesisStatus(data.status),
     direction |-> data.direction,
     filled_count |-> data.filled_count,
     avg_fill_price |-> data.avg_fill_price,
     exit_price |-> data.exit_price,
     \* 'Decimal(data["realized_pnl"]) if data.get("realized_pnl") else None': the
     \* string of a Decimal is never empty
     realized_pnl |-> data.realized_pnl]

\* the fields of a Thesis, without what is only observed about it
ThesisFields(t) ==
    [status |-> t.status, direction |-> t.direction, filled_count |-> t.filled_count,
     avg_fill_price |-> t.avg_fill_price, exit_price |-> t.exit_price,
     realized_pnl |-> t.realized_pnl]

\* an operation changed the thesis and _save_thesis has opened its file
Saving(t) ==
    /\ th' = t
    /\ th_file' = "truncated"
    /\ th_saving' = TRUE
    /\ UNCHANGED <<th_read, beyond_thesis>>

\* create_thesis
TH_create ==
    /\ ~th_saving
    /\ th.status = "none"
    /\ th_file = "absent"
    /\ \E direction \in Directions :
         Saving([NoThesis EXCEPT !.status = "DRAFT", !.direction = direction])

\* ThesisTracker.record_fill
TH_record_fill ==
    \E count \in FillCounts, price \in FillPrices :
      /\ ~th_saving
      /\ th.status # "none"
      /\ th.fills < MaxFills
      /\ Saving(record_fill(th, count, price))

\* invalidate_thesis
TH_invalidate ==
    /\ ~th_saving
    /\ th.status # "none"
    /\ Saving(invalidate(th))

\* realize_thesis
TH_realize ==
    \E exit_price \in ExitPrices :
      /\ ~th_saving
      /\ th.status # "none"
      /\ Saving(realize(th, exit_price))

\* json.dump has written the document and the file is closed
TH_saved ==
    /\ th_saving
    /\ th_file' = "written"
    /\ th_saving' = FALSE
    /\ UNCHANGED <<th, th_read, beyond_thesis>>

\* the process dies between open and close and is started again: _load_all cannot
\* parse the file and the thesis is not indexed
TH_interrupted ==
    /\ th_saving
    /\ th_saving' = FALSE
    /\ th' = NoThesis
    /\ th_read' = [seen |-> TRUE, file |-> th_file]
    /\ UNCHANGED <<th_file, beyond_thesis>>

\* another reader of the storage directory opens the thesis file (_load_all)
TH_read ==
    /\ th_file # "absent"
    /\ th_read' = [seen |-> TRUE, file |-> th_file]
    /\ UNCHANGED <<th, th_file, th_saving, beyond_thesis>>

\* the tracker is started again on its storage directory: _load_all builds the
\* thesis from the document _save_thesis wrote
TH_load ==
    /\ ~th_saving
    /\ th_file = "written"
    /\ th' = from_dict(to_dict(th)) @@ th
    /\ UNCHANGED <<th_file, th_saving, th_read, beyond_thesis>>

\* a tracker with an empty storage directory
InitThesis ==
    /\ th = NoThesis
    /\ th_file = "absent"
    /\ th_saving = FALSE
    /\ th_read = NoRead

IdleThesis == InitThesis

(***************************************************************************)
(* PnLTracker: update, record_trade and the alerts they send.  Money is in *)
(* dollars, percentages in percent, time in minutes.  update runs its      *)
(* checks in the order of the code; each alert goes through _send_alert.   *)
(* The velocity and recovery-milestone checks are left out: they add alert *)
(* types, all sent through the same _send_alert.                            *)
(***************************************************************************)
alert_cooldown_minutes == 15
daily_profit_target == 25
alert_daily_loss_limit == 25
daily_profit_target_pct == 5
position_profit_pct == 10
position_loss_pct == 5
position_profit_abs == 50
position_loss_abs == 25
losing_streak_threshold == 3
winning_streak_threshold == 5
drawdown_warning_pct == 5

\* initial_equity of the tracker, the equities update is called with
PtInitialEquity == [equity |-> 1000]
PtEquities == {1000, 1060, 940}
\* the positions update is called with: none, or AAPL with an unrealized P&L in
\* percent and in dollars
PtPositions == {None, Some([pct |-> 12, pnl |-> 60]), Some([pct |-> 0 - 6, pnl |-> 0 - 30])}

\* f"{alert_type.value}:{symbol or 'portfolio'}"
AlertKeys ==
    {<<"new_high", "portfolio">>, <<"position_profit", "AAPL">>,
     <<"position_loss", "AAPL">>, <<"daily_profit_target", "portfolio">>,
     <<"daily_loss_limit", "portfolio">>, <<"losing_streak", "portfolio">>,
     <<"winning_streak", "portfolio">>, <<"drawdown_warning", "portfolio">>,
     <<"recovery_milestone", "portfolio">>, <<"breakeven", "portfolio">>}

\* recovery_milestones, in percent
recovery_milestones == <<25, 50, 75, 100>>

\* PnLAlert: its cooldown key, its value, the recovery milestone it reports (0: none)
Alert(type, scope, value) == [key |-> <<type, scope>>, value |-> value, milestone |-> 0]

\* per key: when it was last emitted, the shortest time between two emissions in a
\* row, the value of the alert last emitted, whether the latest alert handed to
\* _send_alert since carried another value
NeverEmitted == [last |-> None, gap |-> None, value |-> None, superseded |-> FALSE]

\* a tracker that sends whatever it is asked to
always_send(cooldowns, key, t) == TRUE
\* _can_send_alert
can_send_alert(cooldowns, key, t) ==
    ~(IsSome(cooldowns[key]) /\ t < Get(cooldowns[key]))

\* _record_alert_sent, and the emission as an observer sees it
Emitted(sent, alert, t) ==
    LET e == sent.emits[alert.key]
        gap == IF ~IsSome(e.last) THEN e.gap
               ELSE IF IsSome(e.gap) /\ Get(e.gap) < t - Get(e.last) THEN e.gap
               ELSE Some(t - Get(e.last))
    IN  [sent EXCEPT !.cooldowns[alert.key] = Some(t + alert_cooldown_minutes),
                   !.emits[alert.key] = [last |-> Some(t), gap |-> gap,
                                         value |-> Some(alert.value),
                                         superseded |-> FALSE],
                   !.delivered = @ \cup ({alert.milestone} \ {0})]

\* _send_alert: dropped inside the cooldown, else recorded and handed to on_alert,
\* which returns or raises
send_alert(sent, alert, t, raises) ==
    IF ~can_send_alert(sent.cooldowns, alert.key, t)
    THEN [sent EXCEPT !.emits[alert.key].superseded =
                          sent.emits[alert.key].value /= Some(alert.value)]
    ELSE [Emitted(sent, alert, t) EXCEPT !.raised = raises]

\* _send_alert for each alert of a list in turn; on_alert raising ends the update
RECURSIVE SendAlerts(_, _, _, _)
SendAlerts(alerts, sent, t, raises) ==
    IF alerts = <<>> \/ sent.raised THEN sent
    ELSE SendAlerts(Tail(alerts), send_alert(sent, Head(alerts), t, raises), t, raises)

\* the alerts update sends before the drawdown check, in order: the new high,
\* _check_position_alerts, _check_portfolio_alerts, _check_streak_alerts
AlertsOf(equity, position, new_high, streak) ==
    LET pnl_today == equity - PtInitialEquity.equity
        When(cond, alert) == IF cond THEN <<alert>> ELSE <<>>
        pos == Get(position)
        profit == Alert("position_profit", "AAPL", pos.pnl)
        loss == Alert("position_loss", "AAPL", pos.pnl)
        target == Alert("daily_profit_target", "portfolio", pnl_today)
    IN  When(new_high, Alert("new_high", "portfolio", equity))
        \o (IF IsSome(position)
            THEN When(pos.pct >= position_profit_pct, profit)
                 \o When(pos.pnl >= position_profit_abs, profit)
                 \o When(pos.pct <= 0 - position_loss_pct, loss)
                 \o When(pos.pnl <= 0 - position_loss_abs, loss)
            ELSE <<>>)
        \o When(pnl_today >= daily_profit_target, target)
        \o When(pnl_today * 100 >= daily_profit_target_pct * PtInitialEquity.equity,
                target)
        \o When(pnl_today <= 0 - alert_daily_loss_limit,
                Alert("daily_loss_limit", "portfolio", pnl_today))
        \o When(streak <= 0 - losing_streak_threshold,
                Alert("losing_streak", "portfolio", streak))
        \o When(streak >= winning_streak_threshold,
                Alert("winning_streak", "portfolio", streak))

\* _check_drawdown_alerts
check_drawdown_alerts(sent, equity, peak, t, raises) ==
    IF sent.raised \/ peak <= 0 \/ (peak - equity) * 100 < drawdown_warning_pct * peak
    THEN sent
    ELSE LET entered == IF sent.in_drawdown THEN sent
                        ELSE [sent EXCEPT !.in_drawdown = TRUE, !.low = Some(equity)]
             warned == send_alert(entered,
                                  Alert("drawdown_warning", "portfolio", peak - equity),
                                  t, raises)
         IN  IF ~warned.raised /\ equity < Get(warned.low)
             THEN [warned EXCEPT !.low = Some(equity)]
             ELSE warned

\* the loop over the milestones of _check_recovery_alerts
RECURSIVE CheckMilestones(_, _, _, _, _, _)
CheckMilestones(milestones, sent, recovery, drawdown_depth, t, raises) ==
    IF milestones = <<>> \/ sent.raised THEN sent
    ELSE LET milestone == Head(milestones)
             type == IF milestone = 100 THEN "breakeven" ELSE "recovery_milestone"
             alert == [key |-> <<type, "portfolio">>, value |-> recovery,
                       milestone |-> milestone]
             marked == [sent EXCEPT !.recovery_sent = @ \cup {milestone}]
         IN  IF milestone \notin sent.recovery_sent
                /\ recovery * 100 >= milestone * drawdown_depth
             THEN CheckMilestones(Tail(milestones), send_alert(marked, alert, t, raises),
                                  recovery, drawdown_depth, t, raises)
             ELSE CheckMilestones(Tail(milestones), sent, recovery, drawdown_depth, t,
                                  raises)

\* _check_recovery_alerts
check_recovery_alerts(sent, equity, peak, t, raises) ==
    IF sent.raised \/ ~sent.in_drawdown \/ ~IsSome(sent.low) THEN sent
    ELSE IF peak - Get(sent.low) <= 0 THEN sent
    ELSE CheckMilestones(recovery_milestones, sent, equity - Get(sent.low),
                         peak - Get(sent.low), t, raises)

\* update(equity, positions), realized_pnl left at its default of 0
PT_update ==
    \E equity \in PtEquities, position \in PtPositions, raises \in BOOLEAN :
      LET peak == IF equity > pt_peak THEN equity ELSE pt_peak
          new_high == equity > pt_peak /\ pt_in_drawdown
          st0 == [cooldowns |-> pt_cooldowns, emits |-> pt_emits, raised |-> FALSE,
                  in_drawdown |-> IF new_high THEN FALSE ELSE pt_in_drawdown,
                  low |-> pt_low, recovery_sent |-> pt_recovery_sent,
                  delivered |-> pt_delivered]
          st1 == SendAlerts(AlertsOf(equity, position, new_high, pt_streak), st0,
                            pt_clock, raises)
          st2 == check_drawdown_alerts(st1, equity, peak, pt_clock, raises)
      IN  /\ pt_updates < MaxUpdates
          /\ \E st3 \in {check_recovery_alerts(st2, equity, peak, pt_clock, raises)} :
              /\ pt_updates' = pt_updates + 1
              /\ pt_equity' = equity
              /\ pt_peak' = peak
              /\ pt_in_drawdown' = st3.in_drawdown
              /\ pt_low' = st3.low
              /\ pt_recovery_sent' = st3.recovery_sent
              /\ pt_delivered' = st3.delivered
              /\ pt_cooldowns' = st3.cooldowns
              /\ pt_emits' = st3.emits
              /\ UNCHANGED <<pt_clock, pt_streak, beyond_pnl>>

\* record_trade(realized_pnl), for a win or a loss
PT_record_trade ==
    \E realized_pnl \in {0 - 1, 1} :
      /\ Abs(pt_streak) < MaxStreak
      /\ pt_streak' = IF realized_pnl > 0
                      THEN (IF pt_streak >= 0 THEN pt_streak + 1 ELSE 1)
                      ELSE (IF pt_streak <= 0 THEN pt_streak - 1 ELSE 0 - 1)
      /\ UNCHANGED <<pt_clock, pt_equity, pt_peak, pt_in_drawdown, pt_cooldowns,
                     pt_emits, pt_updates, pt_low, pt_recovery_sent, pt_delivered,
                     beyond_pnl>>

\* time passes
PT_tick ==
    /\ pt_clock < MaxPtClock
    /\ pt_clock' = pt_clock + PtTickMinutes
    /\ UNCHANGED <<pt_equity, pt_peak, pt_streak, pt_in_drawdown, pt_cooldowns,
                   pt_emits, pt_updates, pt_low, pt_recovery_sent, pt_delivered,
                   beyond_pnl>>

\* PnLTracker(initial_equity=1000)
InitPnL ==
    /\ pt_clock = 0
    /\ pt_equity = PtInitialEquity.equity
    /\ pt_peak = PtInitialEquity.equity
    /\ pt_streak = 0
    /\ pt_in_drawdown = FALSE
    /\ pt_cooldowns = [key \in AlertKeys |-> None]
    /\ pt_emits = [key \in AlertKeys |-> NeverEmitted]
    /\ pt_updates = 0
    /\ pt_low = None
    /\ pt_recovery_sent = {}
    /\ pt_delivered = {}

IdleTracker == InitPnL

(***************************************************************************)
(* CorrelationRiskManager and IntegratedRiskManager.evaluate_trade.  Values *)
(* are in dollars and limits in percent; value / equity > limit is compared *)
(* as value * 100 > limit * equity, with no floating-point rounding.        *)
(***************************************************************************)
\* CorrelationLimits, as IntegratedRiskManager builds them
max_sector_exposure_pct == 30
max_sector_for_unknown == 10
max_correlation_group_pct == 25
max_single_stock_pct == 15
max_positions_per_sector == 5

\* SYMBOL_SECTORS and CORRELATION_GROUPS for the symbols that are traded here
get_sector(symbol) ==
    IF symbol \in {"ORCL", "ADBE", "CSCO", "QQQ", "XLK", "INTC", "TSM"} THEN "technology"
    ELSE IF symbol = "JPM" THEN "financial"
    ELSE "unknown"

get_correlation_groups(symbol) ==
    IF symbol \in {"INTC", "TSM"} THEN {"semiconductors"}
    ELSE IF symbol = "JPM" THEN {"banks"}
    ELSE {}

GroupMembers(group) ==
    {symbol \in {"ORCL", "ADBE", "CSCO", "QQQ", "XLK", "INTC", "TSM", "JPM"} :
        group \in get_correlation_groups(symbol)}

\* the manager's equity; the books update_state has left in _current_positions:
\* none, five small technology positions, two large semiconductor positions
ManagerEquity == [account_equity |-> 50000]
FiveTech == [s \in {"ORCL", "ADBE", "CSCO", "QQQ", "XLK"} |-> [qty |-> 5, market_value |-> 500]]
Chips ==
    [s \in {"INTC", "TSM"} |->
        IF s = "INTC" THEN [qty |-> 70, market_value |-> 7000]
        ELSE [qty |-> 0 - 50, market_value |-> 0 - 5000]]
Books == {NoPositions, FiveTech, Chips}
TradeSymbols == {"INTC", "ORCL", "GME"}
EntryPrices == {100, 8000}
OverrideShares == {1, 40}
ProposedValues == {100, 2000, 7500}

\* calculate_exposure: the absolute market value held in a set of symbols
Exposure(positions, syms) ==
    LET sum[held \in SUBSET DOMAIN positions] ==
            IF held = {} THEN 0
            ELSE LET s == CHOOSE x \in held : TRUE
                 IN  Abs(positions[s].market_value) + sum[held \ {s}]
    IN  sum[DOMAIN positions \cap syms]

SectorSymbols(positions, sector) == {s \in DOMAIN positions : get_sector(s) = sector}

sector_limit_of(sector) ==
    IF sector = "unknown" THEN max_sector_for_unknown ELSE max_sector_exposure_pct

\* check_position: allowed, and the limit that refused
check_position(symbol, proposed_value, current_positions, account_equity, is_new_position) ==
    LET target_sector == get_sector(symbol)
        new_single == Exposure(current_positions, {symbol}) + proposed_value
        new_sector == Exposure(current_positions,
                               SectorSymbols(current_positions, target_sector))
                      + proposed_value
        current_count == Cardinality(SectorSymbols(current_positions, target_sector))
        over == {group \in get_correlation_groups(symbol) :
                    (Exposure(current_positions, GroupMembers(group)) + proposed_value) * 100
                        > max_correlation_group_pct * account_equity}
    IN  IF account_equity <= 0 THEN [allowed |-> FALSE, reason |-> "equity"]
        ELSE IF new_single * 100 > max_single_stock_pct * account_equity
        THEN [allowed |-> FALSE, reason |-> "single_stock"]
        ELSE IF new_sector * 100 > sector_limit_of(target_sector) * account_equity
        THEN [allowed |-> FALSE, reason |-> "sector"]
        ELSE IF is_new_position /\ current_count >= max_positions_per_sector
        THEN [allowed |-> FALSE, reason |-> "positions_in_sector"]
        ELSE IF over # {} THEN [allowed |-> FALSE, reason |-> "group"]
        ELSE [allowed |-> TRUE, reason |-> "none"]

Min(a, b) == IF a < b THEN a ELSE b

\* get_max_position_size; limit * equity is a whole number of dollars for the
\* equity used here
get_max_position_size(symbol, current_positions, account_equity) ==
    LET sector == get_sector(symbol)
        max_by_single == (max_single_stock_pct * account_equity) \div 100
                         - Exposure(current_positions, {symbol})
        max_by_sector == (sector_limit_of(sector) * account_equity) \div 100
                         - Exposure(current_positions,
                                    SectorSymbols(current_positions, sector))
        group_max(group) == (max_correlation_group_pct * account_equity) \div 100
                            - Exposure(current_positions, GroupMembers(group))
        groups == get_correlation_groups(symbol)
        max_by_group == IF groups = {} THEN max_by_sector
                        ELSE CHOOSE m \in {group_max(g) : g \in groups} :
                                 \A g \in groups : m <= group_max(g)
    IN  IF account_equity <= 0 THEN 0
        ELSE Max(0, Min(max_by_single, Min(max_by_sector, max_by_group)))

NoDecision ==
    [called |-> FALSE, symbol |-> "", is_new_position |-> FALSE, positions_in_sector |-> 0,
     approved |-> FALSE, recommended_notional |-> 0]
NoExposureCall ==
    [op |-> "none", symbol |-> "", proposed_value |-> 0, is_new_position |-> FALSE,
     allowed |-> FALSE, max_allowed |-> 0]

\* what the drawdown protector answers to evaluate_trade (the protector itself is
\* modelled above): trading_allowed, new_positions_allowed, sizing_multiplier
DrawdownAnswers ==
    {[trading_allowed |-> TRUE, new_positions_allowed |-> TRUE],
     [trading_allowed |-> TRUE, new_positions_allowed |-> FALSE],
     [trading_allowed |-> FALSE, new_positions_allowed |-> FALSE]}

\* evaluate_trade(symbol, side, entry_price, override_shares=n), from "Check 1" on
MG_evaluate_trade ==
    \E symbol \in TradeSymbols, side \in Sides, entry_price \in EntryPrices,
       override_shares \in OverrideShares, drawdown_state \in DrawdownAnswers :
      LET is_new_position == symbol \notin DOMAIN mg_positions
          shares == Max(1, override_shares)
          first == check_position(symbol, entry_price * shares, mg_positions, mg_equity,
                                  is_new_position)
          max_allowed == get_max_position_size(symbol, mg_positions, mg_equity)
          reduced == ~first.allowed /\ max_allowed > entry_price
          adjusted_shares == IF reduced THEN max_allowed \div entry_price ELSE shares
          exposure_allowed == first.allowed \/ reduced
          risk_order == [symbol |-> symbol, side |-> side, qty |-> adjusted_shares,
                         limit_price |-> None]
          res == check_order(risk_order, mg_positions, entry_price, Some(mg_equity))
          halted == ~drawdown_state.trading_allowed
                    \/ (is_new_position /\ ~drawdown_state.new_positions_allowed)
          refused == halted \/ ~exposure_allowed
          seen == [called |-> TRUE, symbol |-> symbol, is_new_position |-> is_new_position,
                   positions_in_sector |->
                       Cardinality(SectorSymbols(mg_positions, get_sector(symbol)))]
      IN  /\ tool_risk_engine
          /\ IF refused
             THEN /\ mg_last' = seen @@ [approved |-> FALSE, recommended_notional |-> 0]
                  /\ UNCHANGED <<cb_state, last_check>>
             ELSE /\ mg_last' = seen @@
                        [approved |-> res.action \in {"APPROVE", "DRY_RUN"},
                         recommended_notional |-> entry_price * adjusted_shares]
                  /\ cb_state' = res.cb_state
                  /\ last_check' = Observed(res,
                         check_order_again(res, risk_order, mg_positions, entry_price,
                                           Some(mg_equity)),
                         GrossExposureExceeded(risk_order, mg_positions, entry_price))
          /\ UNCHANGED <<kill_switch_active, dry_run, recent_orders, opened_at,
                         daily_pnl, weekly_pnl, peak_equity, current_equity,
                         daily_spend, weekly_spend, monthly_spend, now,
                         tool_risk_engine, broker_orders, cb_last, last_tool,
                         equity_updates, mg_positions, mg_equity, cm_last>>
          /\ UNCHANGED <<gateway_vars, dd_vars, request_vars, stream_vars, approval_vars,
                         thesis_vars, pnl_vars, index_vars>>

\* correlation_manager.check_position(symbol, proposed_value, positions, equity,
\* is_new_position), for a symbol that is new exactly when it is not held
CM_check_position ==
    \E symbol \in TradeSymbols, proposed_value \in ProposedValues :
      LET is_new_position == symbol \notin DOMAIN mg_positions
          res == check_position(symbol, proposed_value, mg_positions, mg_equity,
                                is_new_position)
      IN  /\ cm_last' = [op |-> "check_position", symbol |-> symbol,
                         proposed_value |-> proposed_value,
                         is_new_position |-> is_new_position, allowed |-> res.allowed,
                         max_allowed |->
                             get_max_position_size(symbol, mg_positions, mg_equity)]
          /\ UNCHANGED <<mg_positions, mg_equity, mg_last, beyond_manager>>

\* correlation_manager.get_max_position_size(symbol, positions, equity)
CM_get_max_position_size ==
    \E symbol \in TradeSymbols :
      /\ cm_last' = [NoExposureCall EXCEPT
                        !.op = "get_max_position_size", !.symbol = symbol,
                        !.max_allowed =
                            get_max_position_size(symbol, mg_positions, mg_equity)]
      /\ UNCHANGED <<mg_positions, mg_equity, mg_last, beyond_manager>>

\* a manager whose update_state has stored one of the books
InitManager ==
    /\ mg_positions \in Books
    /\ mg_equity = ManagerEquity.account_equity
    /\ mg_last = NoDecision
    /\ cm_last = NoExposureCall

IdleManager ==
    /\ mg_positions = NoPositions
    /\ mg_equity = ManagerEquity.account_equity
    /\ mg_last = NoDecision
    /\ cm_last = NoExposureCall

(***************************************************************************)
(* ThesisTracker's indexes.  _theses maps the id of a stored thesis to the *)
(* thesis, _by_order maps an order id to a thesis id.  The tracker is      *)
(* synchronous: every method is one step.  updated_at is kept as whether   *)
(* it lies before the cutoff of cleanup_old_theses.                        *)
(***************************************************************************)
ThesisIds == 1..MaxTheses
OrderIds == {"o1", "o2"}

Range(seq) == {seq[i] : i \in DOMAIN seq}

\* Thesis.add_order: the order id is appended once, and updated_at is now
add_order(thesis, order_id) ==
    IF order_id \in Range(thesis.order_ids) THEN thesis
    ELSE [thesis EXCEPT !.order_ids = Append(@, order_id), !.old = FALSE]

\* _index_thesis: the thesis is stored and each of its orders points to it
index_thesis(by_order, id, thesis) ==
    [o \in DOMAIN by_order \cup Range(thesis.order_ids) |->
        IF o \in Range(thesis.order_ids) THEN id ELSE by_order[o]]

\* get_thesis_by_order
get_thesis_by_order(order_id) ==
    IF order_id \in DOMAIN ix_by_order /\ ix_by_order[order_id] \in DOMAIN ix_theses
    THEN Some(ix_by_order[order_id]) ELSE None

\* create_thesis: a new id, an active thesis without orders, indexed
IX_create_thesis ==
    LET id == ix_next + 1
        thesis == [status |-> "active", old |-> FALSE, order_ids |-> <<>>]
    IN  /\ ix_next < MaxTheses
        /\ ix_next' = id
        /\ ix_theses' = (id :> thesis) @@ ix_theses
        /\ ix_by_order' = index_thesis(ix_by_order, id, thesis)
        /\ UNCHANGED beyond_index

\* link_order(thesis_id, order_id), for a stored thesis
IX_link_order ==
    \E thesis_id \in DOMAIN ix_theses, order_id \in OrderIds :
        /\ ix_theses' = [ix_theses EXCEPT ![thesis_id] = add_order(@, order_id)]
        /\ ix_by_order' = (order_id :> thesis_id) @@ ix_by_order
        /\ UNCHANGED <<ix_next, beyond_index>>

\* invalidate_thesis(thesis_id, reason), for a stored thesis
IX_invalidate_thesis ==
    \E thesis_id \in DOMAIN ix_theses :
        /\ ix_theses' = [ix_theses EXCEPT ![thesis_id] =
                            [@ EXCEPT !.status = "invalidated", !.old = FALSE]]
        /\ UNCHANGED <<ix_by_order, ix_next, beyond_index>>

\* more days pass than cleanup_old_theses keeps: every stored thesis was last
\* updated before the cutoff
IX_days_pass ==
    /\ \E id \in DOMAIN ix_theses : ~ix_theses[id].old
    /\ ix_theses' = [id \in DOMAIN ix_theses |-> [ix_theses[id] EXCEPT !.old = TRUE]]
    /\ UNCHANGED <<ix_by_order, ix_next, beyond_index>>

\* cleanup_old_theses: the theses that are not active and older than the cutoff are
\* popped, and every order of a popped thesis is popped from _by_order
IX_cleanup_old_theses ==
    LET to_remove == {id \in DOMAIN ix_theses :
                        ix_theses[id].status # "active" /\ ix_theses[id].old}
        popped == UNION {Range(ix_theses[id].order_ids) : id \in to_remove}
    IN  /\ to_remove # {}
        /\ ix_theses' = [id \in DOMAIN ix_theses \ to_remove |-> ix_theses[id]]
        /\ ix_by_order' = [o \in DOMAIN ix_by_order \ popped |-> ix_by_order[o]]
        /\ UNCHANGED <<ix_next, beyond_index>>

\* ThesisTracker.__init__ over an empty storage directory
InitIndex ==
    /\ ix_theses = <<>>
    /\ ix_by_order = <<>>
    /\ ix_next = 0

IdleIndex == InitIndex

InitEngine ==
    /\ kill_switch_active = FALSE
    /\ dry_run \in BOOLEAN
    /\ cb_state = "CLOSED"
    /\ recent_orders = <<>>
    /\ opened_at = None
    /\ daily_pnl = 0 /\ weekly_pnl = 0 /\ peak_equity = 0 /\ current_equity = 0
    /\ daily_spend = 0 /\ weekly_spend = 0 /\ monthly_spend = 0
    /\ now = 0
    /\ tool_risk_engine \in BOOLEAN
    /\ broker_orders = 0
    /\ cb_last = NoCbCall
    /\ last_check = NoCheck
    /\ last_tool = NoTool
    /\ equity_updates = 0

\* a circuit breaker on its own
InitBreaker ==
    /\ kill_switch_active = FALSE
    /\ dry_run = FALSE
    /\ cb_state = "CLOSED"
    /\ recent_orders = <<>>
    /\ opened_at = None
    /\ daily_pnl = 0 /\ weekly_pnl = 0 /\ peak_equity = 0 /\ current_equity = 0
    /\ daily_spend = 0 /\ weekly_spend = 0 /\ monthly_spend = 0
    /\ now = 0
    /\ tool_risk_engine = TRUE
    /\ broker_orders = 0
    /\ cb_last = NoCbCall
    /\ last_check = NoCheck
    /\ last_tool = NoTool
    /\ equity_updates = 0

vars == <<engine_vars, gateway_vars, dd_vars, request_vars, stream_vars, approval_vars, thesis_vars, pnl_vars, manager_vars, index_vars>>

Init ==
    /\ InitEngine
    /\ IdleGateway
    /\ IdleProtector
    /\ IdleClient
    /\ IdleStreams
    /\ IdleIndex
    /\ IdleManager
    /\ IdleTracker
    /\ IdleThesis
    /\ IdleApproval

\* the order tool over its risk engine
Next ==
    \/ UpdateEquity
    \/ ActivateKillSwitch
    \/ DeactivateKillSwitch
    \/ PlaceOrder
    \/ PlaceKalshiOrder

Spec == Init /\ [][Next]_vars

\* the risk engine called directly
InitRiskEngine ==
    /\ InitEngine
    /\ tool_risk_engine = TRUE
    /\ IdleGateway
    /\ IdleProtector
    /\ IdleClient
    /\ IdleStreams
    /\ IdleIndex
    /\ IdleManager
    /\ IdleTracker
    /\ IdleThesis
    /\ IdleApproval

NextEngine ==
    \/ Tick
    \/ CheckOrder
    \/ RecordFill
    \/ RecordReject
    \/ CB_reset
    \/ ActivateKillSwitch
    \/ DeactivateKillSwitch

SpecEngine == InitRiskEngine /\ [][NextEngine]_vars

\* the circuit breaker called directly
NextBreaker ==
    \/ Tick
    \/ CB_record_order
    \/ CB_can_trade
    \/ CB_reset

InitCircuitBreaker ==
    /\ InitBreaker
    /\ IdleGateway
    /\ IdleProtector
    /\ IdleClient
    /\ IdleStreams
    /\ IdleIndex
    /\ IdleManager
    /\ IdleTracker
    /\ IdleThesis
    /\ IdleApproval

SpecBreaker == InitCircuitBreaker /\ [][NextBreaker]_vars

\* the broker gateway under concurrent submit_order calls
NextGateway ==
    \/ GW_submit_order
    \/ GW_post
    \/ GW_list_returns
    \/ GW_get_returns

InitBrokerGateway ==
    /\ InitBreaker
    /\ InitGateway
    /\ IdleProtector
    /\ IdleClient
    /\ IdleStreams
    /\ IdleIndex
    /\ IdleManager
    /\ IdleTracker
    /\ IdleThesis
    /\ IdleApproval

SpecGateway == InitBrokerGateway /\ [][NextGateway]_vars

\* the drawdown protector
InitDrawdown ==
    /\ InitBreaker
    /\ IdleGateway
    /\ IdleClient
    /\ IdleStreams
    /\ IdleIndex
    /\ IdleManager
    /\ IdleTracker
    /\ IdleThesis
    /\ IdleApproval
    /\ \E initial_equity \in InitialEquities : InitProtector(initial_equity)

NextDrawdown ==
    \/ DDTick
    \/ DD_update_equity

SpecDrawdown == InitDrawdown /\ [][NextDrawdown]_vars

\* the drawdown protector asked for its liquidation orders between equity updates
NextLiquidation ==
    \/ DD_update_equity
    \/ DD_get_liquidation_orders

SpecLiquidation == InitDrawdown /\ [][NextLiquidation]_vars

\* _request and the rate limiter
InitRequests ==
    /\ InitBreaker
    /\ IdleGateway
    /\ IdleProtector
    /\ IdleStreams
    /\ IdleIndex
    /\ IdleManager
    /\ IdleTracker
    /\ IdleThesis
    /\ IdleApproval
    /\ \E client \in {"alpaca", "kalshi"}, api_key \in BOOLEAN :
         /\ client = "alpaca" => api_key
         /\ InitClient(client, api_key)

NextRequests ==
    \/ RQ_call
    \/ RQ_limiter_wake
    \/ RQ_login
    \/ RQ_send
    \/ RQ_relogin
    \/ RQ_resume
    \/ RQ_tick

SpecRequests == InitRequests /\ [][NextRequests]_vars

\* the streams; a loop goes on whenever it can
InitStreams ==
    /\ InitBreaker
    /\ IdleGateway
    /\ IdleProtector
    /\ IdleClient
    /\ \E obj \in {"alpaca", "kalshi"} : InitStream(obj)
    /\ IdleIndex
    /\ IdleManager
    /\ IdleTracker
    /\ IdleThesis
    /\ IdleApproval

NextStreams ==
    \/ ST_connect
    \/ \E s \in Loops : ST_progress(s)
    \/ \E s \in Loops : ST_dropped(s)
    \/ ST_message
    \/ ST_disconnect
    \/ ST_subscribe
    \/ ST_unsubscribe

SpecStreams ==
    InitStreams /\ [][NextStreams]_vars /\ \A s \in Loops : WF_vars(ST_progress(s))

\* the approval workflow; the event loop runs a suspended waiter whenever it can,
\* and time passes
InitWorkflow ==
    /\ InitBreaker
    /\ IdleGateway
    /\ IdleProtector
    /\ IdleClient
    /\ IdleStreams
    /\ IdleIndex
    /\ IdleManager
    /\ IdleTracker
    /\ IdleThesis
    /\ InitApproval

NextApproval ==
    \/ AP_queue
    \/ AP_wait
    \/ \E w \in Waiters : AP_loop(w)
    \/ AP_approve
    \/ AP_reject
    \/ AP_cancel
    \/ AP_expire_stale
    \/ AP_tick

SpecApproval ==
    InitWorkflow /\ [][NextApproval]_vars /\ WF_vars(AP_tick)
        /\ \A w \in Waiters : WF_vars(AP_loop(w))

\* the thesis tracker's indexes
InitThesisIndex ==
    /\ InitBreaker
    /\ IdleGateway
    /\ IdleProtector
    /\ IdleClient
    /\ IdleStreams
    /\ IdleManager
    /\ IdleTracker
    /\ IdleApproval
    /\ IdleThesis
    /\ InitIndex

NextIndex ==
    \/ IX_create_thesis
    \/ IX_link_order
    \/ IX_invalidate_thesis
    \/ IX_days_pass
    \/ IX_cleanup_old_theses

SpecIndex == InitThesisIndex /\ [][NextIndex]_vars

\* the thesis tracker
InitTracker ==
    /\ InitBreaker
    /\ IdleGateway
    /\ IdleProtector
    /\ IdleClient
    /\ IdleStreams
    /\ IdleIndex
    /\ IdleManager
    /\ IdleTracker
    /\ IdleApproval
    /\ InitThesis

NextThesis ==
    \/ TH_create
    \/ TH_record_fill
    \/ TH_invalidate
    \/ TH_realize
    \/ TH_saved
    \/ TH_interrupted
    \/ TH_read
    \/ TH_load

SpecThesis == InitTracker /\ [][NextThesis]_vars

\* the P&L tracker
InitAlerts ==
    /\ InitBreaker
    /\ IdleGateway
    /\ IdleProtector
    /\ IdleClient
    /\ IdleStreams
    /\ IdleIndex
    /\ IdleManager
    /\ IdleApproval
    /\ IdleThesis
    /\ InitPnL

NextPnL ==
    \/ PT_update
    \/ PT_record_trade
    \/ PT_tick

SpecPnL == InitAlerts /\ [][NextPnL]_vars

\* the integrated risk manager, its correlation manager and its risk engine
InitRiskManager ==
    /\ InitEngine
    /\ tool_risk_engine = TRUE
    /\ IdleGateway
    /\ IdleProtector
    /\ IdleClient
    /\ IdleStreams
    /\ IdleIndex
    /\ IdleTracker
    /\ IdleThesis
    /\ IdleApproval
    /\ InitManager

NextManager ==
    \/ MG_evaluate_trade
    \/ CM_check_position
    \/ CM_get_max_position_size

SpecManager == InitRiskManager /\ [][NextManager]_vars

\* the risk engine called directly by the holder of a hedged book
NextHedged ==
    \/ Tick
    \/ CheckOrderHedged
    \/ RecordFill
    \/ RecordReject
    \/ CB_reset
    \/ ActivateKillSwitch
    \/ DeactivateKillSwitch

SpecHedged == InitRiskEngine /\ [][NextHedged]_vars

(***************************************************************************)
(* Properties.                                                             *)
(***************************************************************************)

\* C1: no order reaches a broker when the risk engine's decision for that order
\* is REJECT, whatever the flags of place_order, and through place_kalshi_order.
NoSubmitPastReject ==
    last_tool.submitted => last_tool.decision # "REJECT"

\* C2: a place_order call in dry-run (the engine's dry-run mode, or dry_run=True)
\* never contacts the broker, with any skip_risk_check, with or without an engine.
DryRunNeverContactsBroker ==
    (last_tool.op = "place_order" /\ (last_tool.dry_run \/ last_tool.engine_dry_run))
        => ~last_tool.submitted

\* C3: with the kill switch active, check_order returns REJECT with the single
\* code KILL_SWITCH_ACTIVE and evaluates nothing after the kill switch: no check
\* passed, no warning, and the circuit breaker is neither asked nor moved.
KillSwitchShortCircuits ==
    (last_check.called /\ last_check.kill_switch) =>
        /\ last_check.action = "REJECT"
        /\ last_check.checks_failed = <<"KILL_SWITCH_ACTIVE">>
        /\ last_check.checks_passed = <<>>
        /\ last_check.warnings = <<>>
        /\ last_check.evaluated = <<"kill_switch">>
        /\ last_check.cb_after = last_check.cb_before

\* C3 happens: check_order ran with the kill switch active while the breaker was
\* OPEN with its cooldown over, the state in which a breaker check would have acted
KillSwitchWhileBreakerDue ==
    /\ last_check.called
    /\ last_check.kill_switch
    /\ last_check.cb_before = "OPEN"
    /\ last_check.cb_due
    /\ last_check.action = "REJECT"

\* C4: for every client key, at most one broker order id is ever associated with
\* the key by the gateway, over every interleaving of submit_order calls.
OneBrokerIdPerKey ==
    \A k \in Keys : Cardinality(associated[k]) <= 1

\* C5: a submit_order that starts after one with the same key has returned an
\* order sends no order-creating request, and returns the broker order id the
\* first submission returned.
LaterSubmitShortCircuits ==
    \A p \in Callers :
        calls[p].later =>
            /\ ~calls[p].posted
            /\ calls[p].pc = "returned" =>
                 Some(Get(calls[p].result)) = first_returned[calls[p].key]

\* C6: when the drawdown from the peak is at or above the emergency threshold, or
\* the equity is negative, update_equity reports EMERGENCY with trading and new
\* positions disallowed and a sizing multiplier of 0, whatever the loss limits say.
EmergencyHaltsTrading ==
    (dd_state.called /\ (dd_state.pct_level = "EMERGENCY" \/ dd_state.current_equity < 0))
        => /\ dd_state.level = "EMERGENCY"
           /\ ~dd_state.trading_allowed
           /\ ~dd_state.new_positions_allowed
           /\ dd_state.sizing_multiplier = 0

\* C7: a loss-limit breach leaves the reported level at WARNING or above, and
\* never below the level the percentage drawdown alone determines.
LossBreachOnlyPromotes ==
    (dd_state.called /\ ~dd_state.limits_ok)
        => /\ LevelRank(dd_state.level) >= LevelRank("WARNING")
           /\ LevelRank(dd_state.level) >= LevelRank(dd_state.pct_level)

\* C8: an outcome recorded while the breaker is HALF_OPEN resolves it: a success
\* closes the breaker, a failure opens it again.
HalfOpenResolves ==
    (cb_last.op = "record_order" /\ cb_last.before = "HALF_OPEN")
        => cb_state = IF cb_last.success THEN "CLOSED" ELSE "OPEN"

\* C9: when check_order runs with the breaker HALF_OPEN (kill switch off), the
\* breaker check passes with a warning and does not reject with CIRCUIT_BREAKER.
HalfOpenPassesWithWarning ==
    (last_check.called /\ ~last_check.kill_switch /\ last_check.cb_before = "HALF_OPEN")
        => /\ ~InSeq("CIRCUIT_BREAKER", last_check.checks_failed)
           /\ last_check.warnings # <<>>

RepeatedCheckSameDecision ==
    last_check.called => last_check.again = last_check.action

\* C12: the pipeline is fail-safe: when place_order runs the risk check without
\* having obtained the market price or the account equity, the checks that need
\* them count as failed: the decision is REJECT and nothing is submitted.
UnevaluableCheckRejects ==
    (/\ last_tool.op = "place_order"
     /\ last_tool.decision # "NONE"
     /\ ~last_tool.skip_risk_check
     /\ last_tool.unobtained)
        => (last_tool.decision = "REJECT" /\ ~last_tool.submitted)

\* C13: the requests a client has sent, first attempts and retries alike, never
\* exceed the bucket's capacity plus the tokens the elapsed time has earned (one
\* per token period), over the window from the client's construction to now.
RequestsWithinRate ==
    rq_sent <= max_tokens + rq_clock

\* C14: an HTTP 429 consumes no retry: as long as a call has met no 401, the
\* attempts of the loop it has used up are the transport errors it has met, and
\* it never ends in "Max retries exceeded".
Http429ConsumesNoRetry ==
    \A r \in Requests :
        rq[r].n401 = 0 =>
            /\ rq[r].attempt = rq[r].errors
            /\ rq[r].kind # "max_retries"

\* C15: on Kalshi a call re-authenticates at most once, and its second 401 ends
\* the call with an error.
KalshiReauthenticatesOnce ==
    \A r \in Requests :
        /\ rq[r].reauths <= 1
        /\ rq[r].n401 >= 2 => rq[r].pc = "raised"

\* C16: the rate limiter's lock is held only across synchronous operations: no
\* call is suspended in a sleep while it holds the lock.
LockNotHeldAcrossAwait ==
    \A r \in Requests : rq[r].pc = "limiter_sleep" => rl_lock # r

\* C17: whenever a stream's loop sleeps before a reconnect, the delay it sleeps is
\* 1 s doubled once for each failed attempt since the stream's last authenticated
\* connection (or since the start), capped at 60 s.
DelayDoublesSinceAuthenticated ==
    \A s \in Loops :
        st[s].pc = "sleeping" =>
            st[s].slept = (IF Pow2(st[s].slept_idx) > max_reconnect_delay
                           THEN max_reconnect_delay ELSE Pow2(st[s].slept_idx))

\* C18: once disconnect() has cleared the stop flag, every loop that was started
\* eventually ends.
StoppedLoopsEnd ==
    \A s \in Loops : (~st_running /\ st[s].pc # "idle") ~> (st[s].pc = "done")

\* C19: what a replay sends on a successful connection is exactly the set of items
\* subscribed and not unsubscribed since.
ReplayIsCurrentIntent == st_replay.done => st_replay.sent = st_replay.intent

\* a replay on a reconnect that sends something, and less than was ever subscribed
ReplayAfterUnsubscribe ==
    /\ st_replay.done
    /\ st_replay.reconnect
    /\ st_replay.sent # {}
    /\ st_replay.sent # st_replay.ever

\* C20: a gap is logged for a message exactly when its number differs from last + 1,
\* last > 0 being the last number received on the message's own channel.
GapLoggedPerChannel == st_msg.handled => (st_msg.gap_logged <=> st_msg.gap)

\* C21: a wait_for_approval that ended with TimeoutError leaves its request
\* EXPIRED.
TimedOutWaitExpires ==
    \A w \in Waiters :
        ap_wait[w].outcome = "timeout" => ap_status[ap_wait[w].rid] = "expired"

\* C22: a pending request whose deadline has passed is eventually no longer
\* pending, whether or not anybody waits for it or queues another.
StaleRequestExpires ==
    \A rid \in RequestIds :
        (ap_status[rid] = "pending" /\ ap_clock > ap_expires[rid])
            ~> (ap_status[rid] # "pending")

CallbackExceptionsIsolated == ~dd_state.raised

\* C25: after an update_equity call that moved the level into CRITICAL or
\* EMERGENCY the protector is in recovery until recovery_cooldown_hours after the
\* call, and a recovery ends only on a new equity peak or at its deadline.
CriticalArmsRecovery ==
    /\ [](dd_state.entered =>
            /\ dd_in_recovery
            /\ dd_recovery_until = Some(dd_state.at + recovery_cooldown_hours))
    /\ [][(dd_in_recovery /\ ~dd_in_recovery') =>
            \/ dd_peak_equity' > dd_peak_equity
            \/ (IsSome(dd_recovery_until) /\ dd_now >= Get(dd_recovery_until))]_vars

\* C26: from equity 1000, update_equity with 970, 920, 870, 830 reports the levels
\* CAUTION, WARNING, CRITICAL, EMERGENCY and the multipliers 0.5, 0.5, 0.25, 0.0.
EscalationScenario ==
    dd_log.on =>
        \A i \in 1..Len(dd_log.calls) :
            /\ dd_log.calls[i].level = <<"CAUTION", "WARNING", "CRITICAL", "EMERGENCY">>[i]
            /\ dd_log.calls[i].sizing_multiplier = <<500, 500, 250, 0>>[i]

\* C27: a thesis that is REALIZED, INVALIDATED or EXPIRED keeps its status under
\* every operation of the tracker, and a thesis becomes REALIZED only from ACTIVE.
ThesisStatusMonotonic ==
    [][/\ (th.status \in Terminal /\ th'.status # "none") => th'.status = th.status
       /\ (th'.status = "REALIZED" /\ th.status # "REALIZED") => th.status = "ACTIVE"]_vars

\* C28: after its fills the thesis's avg_fill_price is the sum of count * price
\* over the sum of the counts.
AvgFillPriceIsWeightedMean ==
    th.fills > 0 =>
        /\ IsSome(th.avg_fill_price)
        /\ Get(th.avg_fill_price) * th.sum_count = th.sum_notional

\* C29: whoever reads a thesis file finds a fully written document.
ReaderSeesWholeDocument == th_read.seen => th_read.file = "written"

\* C30: for every alert key, two emissions in a row are at least cooldown_minutes
\* apart.
EmissionsRespectCooldown ==
    \A key \in AlertKeys :
        IsSome(pt_emits[key].gap) => Get(pt_emits[key].gap) >= alert_cooldown_minutes

\* an alert was emitted a second time, in a later update
EmittedAgain ==
    \E key \in AlertKeys :
        /\ IsSome(pt_emits[key].gap)
        /\ Get(pt_emits[key].last) = pt_clock
        /\ pt_clock >= alert_cooldown_minutes

\* C31: for every alert key, the alert reported for a cooldown window carries the
\* value of the latest alert of that key triggered inside the window.
LatestTriggerWins ==
    \A key \in AlertKeys :
        IsSome(pt_emits[key].value) => ~pt_emits[key].superseded

\* C39: every recovery milestone marked as sent had its alert emitted.
MarkedMilestonesDelivered == pt_recovery_sent \subseteq pt_delivered

\* C33: a check_order that ran the pipeline fails with TOTAL_EXPOSURE_EXCEEDED
\* whenever the sum of the absolute market values of the positions plus the buy
\* notional is above max_total_exposure.
TotalExposureIsGross ==
    (last_check.called /\ InSeq("circuit_breaker", last_check.evaluated)
       /\ ~InSeq("CIRCUIT_BREAKER", last_check.checks_failed)
       /\ last_check.gross_exceeded)
        => InSeq("TOTAL_EXPOSURE_EXCEEDED", last_check.checks_failed)

\* C32: evaluate_trade never approves a trade in a symbol that is not held when the
\* symbol's sector already holds max_positions_per_sector symbols.
FullSectorRefusesNewSymbol ==
    (mg_last.called /\ mg_last.is_new_position
       /\ mg_last.positions_in_sector >= max_positions_per_sector)
        => ~mg_last.approved

\* C40: a proposed value above zero and within get_max_position_size is allowed by
\* check_position.
MaxPositionSizeIsAllowed ==
    (cm_last.op = "check_position" /\ cm_last.proposed_value > 0
       /\ cm_last.proposed_value <= cm_last.max_allowed)
        => cm_last.allowed

\* C34: the liquidation orders appear by unrealized P&L ascending, and orders with
\* equal unrealized P&L by absolute market value descending.
LosersFirstThenLargest ==
    \A i, j \in 1..Len(dd_plan.orders) :
        i < j =>
            \/ dd_plan.orders[i].unrealized_pnl < dd_plan.orders[j].unrealized_pnl
            \/ /\ dd_plan.orders[i].unrealized_pnl = dd_plan.orders[j].unrealized_pnl
               /\ Abs(dd_plan.orders[i].market_value) >= Abs(dd_plan.orders[j].market_value)

\* C35: a thesis the tracker holds is equal, field by field, to from_dict of its
\* to_dict.
ThesisRoundTrips ==
    th.status # "none" => from_dict(to_dict(th)) = ThesisFields(th)

\* C36: while the kill switch of the tool's risk engine is active (from
\* activate_kill_switch until deactivate_kill_switch), no step of the order tool
\* adds an order at a broker: neither place_order with any flags nor
\* place_kalshi_order.
KillSwitchHaltsOrders ==
    [][(tool_risk_engine /\ kill_switch_active) => broker_orders' = broker_orders]_vars

\* C37: a resolved approval request is final: once a request is approved,
\* rejected, cancelled or expired, no step (approve, reject, cancel, expire_stale,
\* the eviction of queue_for_approval, the timeout of a waiter) changes its
\* recorded status.
ResolvedIsFinal ==
    [][\A rid \in RequestIds :
          ap_status[rid] \notin {"none", "pending"} => ap_status'[rid] = ap_status[rid]]_vars

\* a waiter's timeout ran _expire on a request that had been approved after the
\* timer fired, and the request is still approved
TimeoutAfterApproval ==
    \E w \in Waiters :
        /\ ap_wait[w].outcome = "timeout"
        /\ ap_status[ap_wait[w].rid] = "approved"

\* C38: the order-to-thesis index agrees with the theses' order lists after any
\* sequence of create_thesis, link_order and cleanup_old_theses:
\* get_thesis_by_order(o) returns t exactly when t is stored and o is in t's list.
IndexMatchesOrderLists ==
    \A o \in OrderIds, t \in ThesisIds :
        (get_thesis_by_order(o) = Some(t))
            <=> (t \in DOMAIN ix_theses /\ o \in Range(ix_theses[t].order_ids))

====
